---- MODULE Spec2Model ----
(***************************************************************************)
(* A model of pinia-cached-store: the encoder of src/utils.ts (encode,     *)
(* decode, objectRepresentation) and the cached store of src/store.ts      *)
(* ($load, $flushCache, $clearCache).                                      *)
(*                                                                         *)
(* Text is a sequence of UTF-16 code units.  A JSON value is a tagged      *)
(* record:                                                                 *)
(*   [t |-> "null"]  [t |-> "bool", b]  [t |-> "num", n]  [t |-> "str", s] *)
(*   [t |-> "arr", a |-> <<values>>]  [t |-> "obj", o |-> <<<<key,val>>>>] *)
(* and [t |-> "undef"] is JavaScript's undefined.  An object keeps its     *)
(* properties in declaration order, as a JavaScript object does.  Numbers  *)
(* are integers, strings hold no control characters and no lone surrogates *)
(* and property names are not integer-like.                                *)
(***************************************************************************)
EXTENDS Integers, Sequences, FiniteSets, TLC

----------------------------------------------------------------------------
(* Values *)

Undefined == [t |-> "undef"]
Null == [t |-> "null"]
Bool(b) == [t |-> "bool", b |-> b]
Num(n) == [t |-> "num", n |-> n]
Str(s) == [t |-> "str", s |-> s]
Arr(a) == [t |-> "arr", a |-> a]
Obj(o) == [t |-> "obj", o |-> o]

HasField(v, k) == v.t = "obj" /\ \E i \in 1..Len(v.o) : v.o[i][1] = k

\* v[k] of JavaScript for a value that is not null or undefined: the property
\* of an object, undefined for everything else the model holds.
GetField(v, k) ==
  IF HasField(v, k)
  THEN v.o[CHOOSE i \in 1..Len(v.o) : v.o[i][1] = k][2]
  ELSE Undefined

\* obj[k] = x: an existing property keeps its place, a new one is added last.
SetField(v, k, x) ==
  IF HasField(v, k)
  THEN Obj([i \in 1..Len(v.o) |-> IF v.o[i][1] = k THEN <<k, x>> ELSE v.o[i]])
  ELSE Obj(Append(v.o, <<k, x>>))

\* Deep equality of two values, the order of an object's properties aside.
RECURSIVE DeepEq(_, _)
DeepEq(v, w) ==
  /\ v.t = w.t
  /\ CASE v.t = "bool" -> v.b = w.b
       [] v.t = "num" -> v.n = w.n
       [] v.t = "str" -> v.s = w.s
       [] v.t = "arr" -> /\ Len(v.a) = Len(w.a)
                         /\ \A i \in 1..Len(v.a) : DeepEq(v.a[i], w.a[i])
       [] v.t = "obj" -> /\ Len(v.o) = Len(w.o)
                         /\ \A i \in 1..Len(v.o) :
                              /\ HasField(w, v.o[i][1])
                              /\ DeepEq(v.o[i][2], GetField(w, v.o[i][1]))
       [] OTHER -> TRUE

----------------------------------------------------------------------------
(* JSON.stringify and JSON.parse *)

RECURSIVE Digits(_)
Digits(n) == IF n < 10 THEN <<48 + n>> ELSE Digits(n \div 10) \o <<48 + (n % 10)>>

NumberText(n) == IF n < 0 THEN <<45>> \o Digits(-n) ELSE Digits(n)

\* A string's JSON text: quoted, with '"' and '\' escaped.
RECURSIVE QuoteBody(_)
QuoteBody(s) ==
  IF s = <<>> THEN <<>>
  ELSE (IF Head(s) \in {34, 92} THEN <<92, Head(s)>> ELSE <<Head(s)>>)
         \o QuoteBody(Tail(s))

Quoted(s) == <<34>> \o QuoteBody(s) \o <<34>>

T_null == <<110, 117, 108, 108>>
T_true == <<116, 114, 117, 101>>
T_false == <<102, 97, 108, 115, 101>>

RECURSIVE Stringify(_), StringifyItems(_, _), StringifyMembers(_, _, _)
\* JSON.stringify(v) for a value v other than undefined.
Stringify(v) ==
  CASE v.t = "null" -> T_null
    [] v.t = "bool" -> IF v.b THEN T_true ELSE T_false
    [] v.t = "num" -> NumberText(v.n)
    [] v.t = "str" -> Quoted(v.s)
    [] v.t = "arr" -> <<91>> \o StringifyItems(v.a, 1) \o <<93>>
    [] v.t = "obj" -> <<123>> \o StringifyMembers(v.o, 1, TRUE) \o <<125>>

\* The elements of an array from index i on; undefined is written as null.
StringifyItems(a, i) ==
  IF i > Len(a) THEN <<>>
  ELSE (IF i > 1 THEN <<44>> ELSE <<>>)
         \o (IF a[i].t = "undef" THEN T_null ELSE Stringify(a[i]))
         \o StringifyItems(a, i + 1)

\* The properties of an object from index i on; an undefined one is left out.
StringifyMembers(o, i, first) ==
  IF i > Len(o) THEN <<>>
  ELSE IF o[i][2].t = "undef" THEN StringifyMembers(o, i + 1, first)
  ELSE (IF first THEN <<>> ELSE <<44>>)
         \o Quoted(o[i][1]) \o <<58>> \o Stringify(o[i][2])
         \o StringifyMembers(o, i + 1, FALSE)

\* The result of a step that may throw: ok, the value v, the next index i.
Fail == [ok |-> FALSE, v |-> Null, i |-> 0]
Ok(v, i) == [ok |-> TRUE, v |-> v, i |-> i]

IsDigit(c) == c >= 48 /\ c <= 57

RECURSIVE ScanDigits(_, _)
ScanDigits(txt, i) ==
  IF i <= Len(txt) /\ IsDigit(txt[i]) THEN ScanDigits(txt, i + 1) ELSE i

RECURSIVE DigitsValue(_)
DigitsValue(ds) ==
  IF ds = <<>> THEN 0
  ELSE 10 * DigitsValue(SubSeq(ds, 1, Len(ds) - 1)) + (ds[Len(ds)] - 48)

\* A JSON number at index i: an optional '-', then 0 or digits with no
\* leading 0.
ParseNumber(txt, i) ==
  LET neg == txt[i] = 45
      from == IF neg THEN i + 1 ELSE i
      to == ScanDigits(txt, from)
  IN IF to = from \/ (to > from + 1 /\ txt[from] = 48) THEN Fail
     ELSE LET n == DigitsValue(SubSeq(txt, from, to - 1))
          IN Ok(Num(IF neg THEN -n ELSE n), to)

\* The body of a JSON string from index i (after the opening quote).
RECURSIVE ScanString(_, _, _)
ScanString(txt, i, acc) ==
  IF i > Len(txt) THEN Fail
  ELSE IF txt[i] = 34 THEN Ok(acc, i + 1)
  ELSE IF txt[i] = 92
    THEN IF i + 1 <= Len(txt) /\ txt[i + 1] \in {34, 92, 47}
         THEN ScanString(txt, i + 2, Append(acc, txt[i + 1]))
         ELSE Fail
  ELSE IF txt[i] < 32 THEN Fail
  ELSE ScanString(txt, i + 1, Append(acc, txt[i]))

Matches(txt, i, word) ==
  /\ i + Len(word) - 1 <= Len(txt)
  /\ SubSeq(txt, i, i + Len(word) - 1) = word

RECURSIVE ParseValue(_, _), ParseElements(_, _, _), ParseMembers(_, _, _)
ParseValue(txt, i) ==
  IF i > Len(txt) THEN Fail
  ELSE CASE txt[i] = 110 -> IF Matches(txt, i, T_null) THEN Ok(Null, i + 4) ELSE Fail
         [] txt[i] = 116 -> IF Matches(txt, i, T_true) THEN Ok(Bool(TRUE), i + 4) ELSE Fail
         [] txt[i] = 102 -> IF Matches(txt, i, T_false) THEN Ok(Bool(FALSE), i + 5) ELSE Fail
         [] txt[i] = 34 -> LET r == ScanString(txt, i + 1, <<>>)
                           IN IF r.ok THEN Ok(Str(r.v), r.i) ELSE Fail
         [] txt[i] = 45 \/ IsDigit(txt[i]) -> ParseNumber(txt, i)
         [] txt[i] = 91 -> IF i + 1 <= Len(txt) /\ txt[i + 1] = 93
                           THEN Ok(Arr(<<>>), i + 2)
                           ELSE ParseElements(txt, i + 1, <<>>)
         [] txt[i] = 123 -> IF i + 1 <= Len(txt) /\ txt[i + 1] = 125
                            THEN Ok(Obj(<<>>), i + 2)
                            ELSE ParseMembers(txt, i + 1, Obj(<<>>))
         [] OTHER -> Fail

\* The elements of an array from index i, up to and with the closing ']'.
ParseElements(txt, i, acc) ==
  LET r == ParseValue(txt, i)
  IN IF ~r.ok \/ r.i > Len(txt) THEN Fail
     ELSE IF txt[r.i] = 93 THEN Ok(Arr(Append(acc, r.v)), r.i + 1)
     ELSE IF txt[r.i] = 44 THEN ParseElements(txt, r.i + 1, Append(acc, r.v))
     ELSE Fail

\* The members of an object from index i, up to and with the closing '}'; a
\* repeated name overwrites the earlier value.
ParseMembers(txt, i, acc) ==
  IF i > Len(txt) \/ txt[i] # 34 THEN Fail
  ELSE LET k == ScanString(txt, i + 1, <<>>)
       IN IF ~k.ok \/ k.i > Len(txt) \/ txt[k.i] # 58 THEN Fail
          ELSE LET r == ParseValue(txt, k.i + 1)
               IN IF ~r.ok \/ r.i > Len(txt) THEN Fail
                  ELSE IF txt[r.i] = 125 THEN Ok(SetField(acc, k.v, r.v), r.i + 1)
                  ELSE IF txt[r.i] = 44
                    THEN ParseMembers(txt, r.i + 1, SetField(acc, k.v, r.v))
                  ELSE Fail

\* JSON.parse(txt): fails (a SyntaxError) unless the whole text is one value.
JSONParse(txt) ==
  LET r == ParseValue(txt, 1)
  IN IF r.ok /\ r.i = Len(txt) + 1 THEN r ELSE Fail

----------------------------------------------------------------------------
(* btoa and atob *)

B64Char(n) ==
  IF n < 26 THEN 65 + n
  ELSE IF n < 52 THEN 97 + (n - 26)
  ELSE IF n < 62 THEN 48 + (n - 52)
  ELSE IF n = 62 THEN 43 ELSE 47

B64Val(c) ==
  IF c >= 65 /\ c <= 90 THEN c - 65
  ELSE IF c >= 97 /\ c <= 122 THEN c - 97 + 26
  ELSE IF c >= 48 /\ c <= 57 THEN c - 48 + 52
  ELSE IF c = 43 THEN 62
  ELSE IF c = 47 THEN 63 ELSE -1

RECURSIVE B64Encode(_, _)
B64Encode(b, i) ==
  LET n == Len(b) - i + 1
  IN IF n <= 0 THEN <<>>
     ELSE IF n = 1
       THEN <<B64Char(b[i] \div 4), B64Char((b[i] % 4) * 16), 61, 61>>
     ELSE IF n = 2
       THEN <<B64Char(b[i] \div 4),
              B64Char((b[i] % 4) * 16 + b[i + 1] \div 16),
              B64Char((b[i + 1] % 16) * 4), 61>>
     ELSE <<B64Char(b[i] \div 4),
            B64Char((b[i] % 4) * 16 + b[i + 1] \div 16),
            B64Char((b[i + 1] % 16) * 4 + b[i + 2] \div 64),
            B64Char(b[i + 2] % 64)>> \o B64Encode(b, i + 3)

\* btoa(txt): throws when a code unit is above 0xFF.
btoa(txt) ==
  IF \E i \in 1..Len(txt) : txt[i] > 255 THEN Fail
  ELSE Ok(B64Encode(txt, 1), 0)

RECURSIVE B64Decode(_, _)
B64Decode(s, i) ==
  LET n == Len(s) - i + 1
      v(j) == B64Val(s[i + j])
  IN IF n <= 1 THEN <<>>
     ELSE IF n = 2 THEN <<v(0) * 4 + v(1) \div 16>>
     ELSE IF n = 3
       THEN <<v(0) * 4 + v(1) \div 16, (v(1) % 16) * 16 + v(2) \div 4>>
     ELSE <<v(0) * 4 + v(1) \div 16,
            (v(1) % 16) * 16 + v(2) \div 4,
            (v(2) % 4) * 64 + v(3)>> \o B64Decode(s, i + 4)

IsAsciiSpace(c) == c \in {9, 10, 12, 13, 32}

\* atob(data): ASCII whitespace is dropped, then up to two '=' at the end of
\* a text whose length is a multiple of 4; it throws on a length of 1 modulo
\* 4 and on every character outside the base64 alphabet.
atob(data) ==
  LET s == SelectSeq(data, LAMBDA c : ~IsAsciiSpace(c))
      n == Len(s)
      pad == IF n % 4 = 0 /\ n > 0 /\ s[n] = 61
             THEN (IF s[n - 1] = 61 THEN 2 ELSE 1)
             ELSE 0
      body == SubSeq(s, 1, n - pad)
  IN IF Len(body) % 4 = 1 \/ \E i \in 1..Len(body) : B64Val(body[i]) < 0
     THEN Fail
     ELSE Ok(B64Decode(body, 1), 0)

----------------------------------------------------------------------------
(* encode, decode, objectRepresentation *)

\* A split that keeps the low byte of every code unit and a zero for the
\* high one.
RECURSIVE LowBytes(_, _)
LowBytes(units, i) ==
  IF i > Len(units) THEN <<>>
  ELSE <<units[i] % 256, 0>> \o LowBytes(units, i + 1)

\* The bytes of a Uint16Array over the code units, low byte first.
RECURSIVE SplitBytes(_, _)
SplitBytes(units, i) ==
  IF i > Len(units) THEN <<>>
  ELSE <<units[i] % 256, units[i] \div 256>> \o SplitBytes(units, i + 1)

\* The code units of a Uint16Array over the bytes, low byte first.
RECURSIVE JoinBytes(_, _)
JoinBytes(bytes, i) ==
  IF i + 1 > Len(bytes) THEN <<>>
  ELSE <<bytes[i] + 256 * bytes[i + 1]>> \o JoinBytes(bytes, i + 2)

\* An encode that always writes the byte pairs after '!'.
AlwaysPairs(data) == <<33>> \o btoa(SplitBytes(Stringify(data), 1)).v

\* encode(data): btoa of the JSON text, or '!' and btoa of its byte pairs
\* when btoa throws.
encode(data) ==
  LET dataString == Stringify(data)
      plain == btoa(dataString)
  IN IF plain.ok THEN plain.v
     ELSE <<33>> \o btoa(SplitBytes(dataString, 1)).v

\* A decode that knows nothing of '!': atob and JSON.parse, whatever the
\* text starts with.
DecodePlain(data) ==
  LET dataString == atob(data)
  IN IF ~dataString.ok THEN Fail ELSE JSONParse(dataString.v)

\* decode(data): throws when atob throws, when the byte count after '!' is
\* odd (new Uint16Array(bytes.buffer)), and when JSON.parse throws.
decode(data) ==
  IF Len(data) > 0 /\ data[1] = 33
  THEN LET binaryString == atob(SubSeq(data, 2, Len(data)))
       IN IF ~binaryString.ok \/ Len(binaryString.v) % 2 = 1 THEN Fail
          ELSE JSONParse(JoinBytes(binaryString.v, 1))
  ELSE LET dataString == atob(data)
       IN IF ~dataString.ok THEN Fail ELSE JSONParse(dataString.v)

RECURSIVE LexLess(_, _)
\* a sorts before b by code units (Array.prototype.sort's default order).
LexLess(a, b) ==
  IF b = <<>> THEN FALSE
  ELSE IF a = <<>> THEN TRUE
  ELSE IF Head(a) # Head(b) THEN Head(a) < Head(b)
  ELSE LexLess(Tail(a), Tail(b))

RECURSIVE SortKeys(_)
SortKeys(S) ==
  IF S = {} THEN <<>>
  ELSE LET m == CHOOSE k \in S : \A j \in S : j = k \/ LexLess(k, j)
       IN <<m>> \o SortKeys(S \ {m})

\* The keys the replacer function of the first JSON.stringify is called
\* with below a value: every property name and every array index.
RECURSIVE KeysBelow(_)
KeysBelow(v) ==
  CASE v.t = "arr" ->
         UNION {{NumberText(i - 1)} \cup KeysBelow(v.a[i]) : i \in 1..Len(v.a)}
    [] v.t = "obj" ->
         UNION {{v.o[i][1]} \cup KeysBelow(v.o[i][2]) : i \in 1..Len(v.o)}
    [] OTHER -> {}

T_proto == <<95, 95, 112, 114, 111, 116, 111, 95, 95>>

\* Get(holder, key) of SerializeJSONProperty: an own property, or else what
\* the prototype chain gives for the name.  For __proto__ that is
\* Object.prototype, whose own __proto__ reads null; what else it holds are
\* functions, which JSON.stringify leaves out as it leaves out undefined.
Get(v, k) ==
  IF HasField(v, k) THEN GetField(v, k)
  ELSE IF k = T_proto THEN Obj(<< <<T_proto, Null>> >>)
  ELSE Undefined

RECURSIVE StringifyListed(_, _), ListedItems(_, _, _), ListedMembers(_, _, _, _)
\* JSON.stringify(v, keys) with an array replacer: for an object every name
\* of keys is read from it, in the order of keys, and written unless the
\* read gives undefined.
StringifyListed(v, keys) ==
  CASE v.t = "arr" -> <<91>> \o ListedItems(v.a, 1, keys) \o <<93>>
    [] v.t = "obj" -> <<123>> \o ListedMembers(v, keys, 1, TRUE) \o <<125>>
    [] OTHER -> Stringify(v)

ListedItems(a, i, keys) ==
  IF i > Len(a) THEN <<>>
  ELSE (IF i > 1 THEN <<44>> ELSE <<>>)
         \o (IF a[i].t = "undef" THEN T_null ELSE StringifyListed(a[i], keys))
         \o ListedItems(a, i + 1, keys)

ListedMembers(v, keys, i, first) ==
  IF i > Len(keys) THEN <<>>
  ELSE IF Get(v, keys[i]).t = "undef" THEN ListedMembers(v, keys, i + 1, first)
  ELSE (IF first THEN <<>> ELSE <<44>>)
         \o Quoted(keys[i]) \o <<58>> \o StringifyListed(Get(v, keys[i]), keys)
         \o ListedMembers(v, keys, i + 1, FALSE)

\* A representation that writes the properties in declaration order.
Unsorted(input) == encode(Str(Stringify(input)))

\* A representation that collects the property names of the value itself
\* and not those below it.
RootKeysOnly(input) ==
  LET keys == {<<>>} \cup (IF input.t = "obj"
                            THEN {input.o[i][1] : i \in 1..Len(input.o)}
                            ELSE {})
      jsonString == StringifyListed(input, SortKeys(keys))
  IN encode(Str(jsonString))

\* objectRepresentation(input): the keys of the whole value, the root's ''
\* included, sorted once; the JSON text written with them; then encode of
\* that text, a string.
objectRepresentation(input) ==
  LET keys == {<<>>} \cup KeysBelow(input)
      jsonString == StringifyListed(input, SortKeys(keys))
  IN encode(Str(jsonString))

----------------------------------------------------------------------------
(* JavaScript's coercions, as far as getExistingCacheData uses them *)

NotANumber == [finite |-> FALSE, n |-> 0]
Finite(n) == [finite |-> TRUE, n |-> n]

IsSpace(c) == c \in {9, 10, 11, 12, 13, 32}

RECURSIVE Trim(_)
Trim(s) ==
  IF s = <<>> THEN s
  ELSE IF IsSpace(Head(s)) THEN Trim(Tail(s))
  ELSE IF IsSpace(s[Len(s)]) THEN Trim(SubSeq(s, 1, Len(s) - 1))
  ELSE s

\* Number(s) of a string: 0 when it is empty or blank, the number when it is
\* a signed run of digits, NaN otherwise.
StringToNumber(s) ==
  LET t == Trim(s)
      signed == t # <<>> /\ t[1] \in {43, 45}
      ds == IF signed THEN Tail(t) ELSE t
  IN IF t = <<>> THEN Finite(0)
     ELSE IF ds # <<>> /\ \A i \in 1..Len(ds) : IsDigit(ds[i])
       THEN Finite(IF t[1] = 45 THEN -DigitsValue(ds) ELSE DigitsValue(ds))
     ELSE NotANumber

RECURSIVE ToNumber(_)
\* Number(v): an array goes through its string (its elements joined by ',').
ToNumber(v) ==
  CASE v.t = "undef" -> NotANumber
    [] v.t = "null" -> Finite(0)
    [] v.t = "bool" -> Finite(IF v.b THEN 1 ELSE 0)
    [] v.t = "num" -> Finite(v.n)
    [] v.t = "str" -> StringToNumber(v.s)
    [] v.t = "arr" ->
         IF Len(v.a) = 0 THEN Finite(0)
         ELSE IF Len(v.a) > 1 THEN NotANumber
         ELSE IF v.a[1].t \in {"undef", "null"} THEN Finite(0)
         ELSE IF v.a[1].t \in {"bool", "obj"} THEN NotANumber
         ELSE ToNumber(v.a[1])
    [] v.t = "obj" -> NotANumber

\* The global isFinite(v), which converts its argument to a number first.
isFinite(v) == ToNumber(v).finite

\* typeof v
TypeOf(v) ==
  CASE v.t = "undef" -> "undefined"
    [] v.t = "bool" -> "boolean"
    [] v.t = "num" -> "number"
    [] v.t = "str" -> "string"
    [] OTHER -> "object"

Truthy(v) ==
  CASE v.t \in {"undef", "null"} -> FALSE
    [] v.t = "bool" -> v.b
    [] v.t = "num" -> v.n # 0
    [] v.t = "str" -> v.s # <<>>
    [] OTHER -> TRUE

----------------------------------------------------------------------------
(* The store's options and the routines its user supplies *)

DEFAULT_MAX_AGE == 86400000

\* Date.now() when the model starts, and a maxAge option above every clock
\* value the model reaches.
Clock0 == 100000000
LongMaxAge == 2000000000

MaxCalls == 2
MaxEnv == 1

T_store == <<115, 116, 111, 114, 101>>
T_state == <<115, 116, 97, 116, 101>>
T_timestamp == <<116, 105, 109, 101, 115, 116, 97, 109, 112>>
T_value == <<118, 97, 108, 117, 101>>
T_loading == <<108, 111, 97, 100, 105, 110, 103>>
T_message == <<109, 101, 115, 115, 97, 103, 101>>
T_errorWhile ==
  <<69, 114, 114, 111, 114, 32, 119, 104, 105, 108, 101, 32, 114, 101, 102,
    114, 101, 115, 104, 105, 110, 103, 32, 99, 97, 99, 104, 101, 32>>
T_cannotRead ==
  <<67, 97, 110, 110, 111, 116, 32, 114, 101, 97, 100, 32, 112, 114, 111,
    112, 101, 114, 116, 105, 101, 115, 32, 111, 102, 32, 117, 110, 100, 101,
    102, 105, 110, 101, 100, 32, 40, 114, 101, 97, 100, 105, 110, 103, 32,
    39, 109, 101, 115, 115, 97, 103, 101, 39, 41>>

\* options.id of the model's store: 'calc'.
StoreId == <<99, 97, 108, 99>>

\* The caching options a store is defined with.  keyPrefix and maxAge are
\* Undefined when the option is not given; loadingKey is Undefined or the
\* name of the state's boolean field; storage is "local" (a Storage object)
\* or "null".  The model's stores set at most one of refreshSpecificKey,
\* maxAge and checkValidity, and none of them without a storage.
Configs ==
  {c \in
  [id : {StoreId},
   keyPrefix : {Undefined},
   refreshSpecificKey : {Undefined, Bool(FALSE)},
   maxAge : {Undefined, Num(LongMaxAge)},
   checkValidity : BOOLEAN,
   loadingKey : {Undefined, Str(T_loading)},
   storage : {"local", "null"}] :
   LET set == (IF c.refreshSpecificKey = Undefined THEN 0 ELSE 1)
                + (IF c.maxAge = Undefined THEN 0 ELSE 1)
                + (IF c.checkValidity THEN 1 ELSE 0)
   IN IF c.storage = "null" THEN set = 0 ELSE set <= 1}

\* options.state(): { loading: false, value: 0 } for a store with a loading
\* key, { value: 0 } for one without.
Defaults(c) ==
  IF c.loadingKey.t = "undef"
  THEN Obj(<< <<T_value, Num(0)>> >>)
  ELSE Obj(<< <<c.loadingKey.s, Bool(FALSE)>>, <<T_value, Num(0)>> >>)

\* 'computedCacheKey'
T_computedCacheKey ==
  <<99, 111, 109, 112, 117, 116, 101, 100, 67, 97, 99, 104, 101, 75, 101,
    121>>

\* 'Failed to initialize store: invalid loading key'
T_invalidLoadingKey ==
  <<70, 97, 105, 108, 101, 100, 32, 116, 111, 32, 105, 110, 105, 116, 105,
    97, 108, 105, 122, 101, 32, 115, 116, 111, 114, 101, 58, 32, 105, 110,
    118, 97, 108, 105, 100, 32, 108, 111, 97, 100, 105, 110, 103, 32, 107,
    101, 121>>

\* What defineCachedStore() comes to: not called yet, a store definition, or
\* an Error thrown.
Pending == [called |-> FALSE, ok |-> FALSE, message |-> <<>>]
Defined == [called |-> TRUE, ok |-> TRUE, message |-> <<>>]
Refused(message) == [called |-> TRUE, ok |-> FALSE, message |-> message]

\* A check of the loading key that lets the reserved name through.
UnreservedCheck(c, st) ==
  IF Truthy(c.loadingKey)
       /\ TypeOf(GetField(st, c.loadingKey.s)) # "boolean"
  THEN Refused(T_invalidLoadingKey)
  ELSE Defined

\* The check of the loading key in defineCachedStore(), st being what
\* options.state() returns.
defineCachedStore(c, st) ==
  IF Truthy(c.loadingKey)
       /\ \/ c.loadingKey.s = T_computedCacheKey
          \/ TypeOf(GetField(st, c.loadingKey.s)) # "boolean"
  THEN Refused(T_invalidLoadingKey)
  ELSE Defined

\* The refresh options of the model's $load calls: { a: 1 }, { a: 1, b: 2 }
\* and { b: 2, a: 1 }.
Params ==
  {Obj(<< <<(<<97>>), Num(1)>> >>),
   Obj(<< <<(<<97>>), Num(1)>>, <<(<<98>>), Num(2)>> >>),
   Obj(<< <<(<<98>>), Num(2)>>, <<(<<97>>), Num(1)>> >>)}

Payloads == {Num(0), Num(1)}

\* What the model's refresh() computes and assigns to this.value:
\* 2 * (options.a + (options.b ?? 0)) + payload.
Calculate(p, pl) ==
  LET b == GetField(p, <<98>>)
  IN 2 * (GetField(p, <<97>>).n + (IF b.t = "num" THEN b.n ELSE 0)) + pl.n

\* A predicate that accepts every entry for every payload.
Accepting(data, pl) == [ok |-> TRUE, v |-> Bool(TRUE), i |-> 0]

\* The model's checkValidity(data, payload): data.value % 2 == payload, which
\* throws a TypeError for a data of null.
checkValidity(data, pl) ==
  IF data.t = "null" THEN Fail
  ELSE LET n == ToNumber(GetField(data, T_value))
       IN Ok(Bool(n.finite /\ n.n % 2 = pl.n), 0)

\* The values the model's refresh() rejects with: Error('boom'), Error() and
\* undefined (a bare reject()).
Thrown ==
  {Obj(<< <<T_message, Str(<<98, 111, 111, 109>>)>> >>),
   Obj(<< <<T_message, Str(<<>>)>> >>),
   Undefined}

\* The refresh options whose address other code writes to.
ForeignParams == Obj(<< <<(<<97>>), Num(1)>>, <<(<<98>>), Num(2)>> >>)

\* An entry as $flushCache lays it out.
Entry(st, timestamp) == Obj(<< <<T_state, st>>, <<T_timestamp, timestamp>> >>)

\* The state { value: 7 }, which no refresh of the model produces.
ForeignState == Obj(<< <<T_value, Num(7)>> >>)

\* Texts that cannot be read back: '%%' (not base64), 'aGk=' (base64 of
\* 'hi', not JSON), '!YWJj' (three bytes after the mark), the empty string,
\* and the encodings of null and of 5.
CorruptTexts ==
  {<<37, 37>>, btoa(<<104, 105>>).v, <<33>> \o btoa(<<97, 98, 99>>).v, <<>>,
   encode(Null), encode(Num(5))}

\* Entries that decode to an object whose timestamp is no number: null, a
\* string, a numeric string, a boolean, or none at all.
BadTimestampTexts ==
  {encode(Entry(ForeignState, Null)),
   encode(Entry(ForeignState, Str(<<120>>))),
   encode(Entry(ForeignState, Str(<<49, 50, 51>>))),
   encode(Entry(ForeignState, Bool(TRUE))),
   encode(Obj(<< <<T_state, ForeignState>> >>))}

\* Entries with the starting clock value as timestamp whose state is no
\* object: null, 5, a string, or none at all.
BadStateTexts ==
  {encode(Entry(Null, Num(Clock0))),
   encode(Entry(Num(5), Num(Clock0))),
   encode(Entry(Str(<<115>>), Num(Clock0))),
   encode(Obj(<< <<T_timestamp, Num(Clock0)>> >>))}

\* Well-formed entries: a fresh one and one of the epoch.
GoodTexts ==
  {encode(Entry(ForeignState, Num(Clock0))), encode(Entry(ForeignState, Num(0)))}

ForeignTexts == CorruptTexts \cup BadTimestampTexts \cup BadStateTexts \cup GoodTexts

----------------------------------------------------------------------------
(* The store *)

VARIABLES
  cfg,               \* the caching options of the store
  state,             \* the store's $state
  computedCacheKey,  \* this.computedCacheKey: Undefined or Str(address)
  storage,           \* the Storage object: address -> text
  now,               \* Date.now()
  calls,             \* the $load calls, by number
  loaded,            \* the refresh options $load was called with
  env,               \* the other operations that have run, in order
  last,              \* the operation that ran last
  defaults,          \* what options.state() returns
  made,              \* what defineCachedStore(options) came to
  stores,            \* the stores of a page that has several, by number
  input,             \* the arguments a function of utils.ts is called with
  output             \* what the function returned or threw

vars ==
  <<cfg, state, computedCacheKey, storage, now, calls, loaded, env, last,
    defaults, made, stores, input, output>>

\* What the operations of one store leave alone.
others == <<defaults, made, stores, input, output>>

\* No function of utils.ts has been called on its own.
NoInput == <<>>
NoOutput == [op |-> "none"]

Calls == 1..MaxCalls

\* A $reset() that leaves the first store of the page as it is.
Unreset(c) == stores[1].state

\* this.$reset(): the state is options.state() again.
Reset(c) == Defaults(c)

\* A $patch that assigns nothing: with it, a hit restores nothing.
Unpatched(st, p) == st

RECURSIVE Patch(_, _)
\* this.$patch(p) with an object: every property of p is assigned, and two
\* plain objects are merged property by property; null has no properties.
Patch(st, p) ==
  IF p.t # "obj" \/ p.o = <<>> THEN st
  ELSE LET k == p.o[1][1]
           x == p.o[1][2]
           old == GetField(st, k)
           new == IF old.t = "obj" /\ x.t = "obj" THEN Patch(old, x) ELSE x
       IN Patch(SetField(st, k, new), Obj(Tail(p.o)))

\* A setLoadingKey that leaves the state alone.
Unflagged(c, st, value) == st

\* A setLoadingKey that sets the flag whatever it is given.
FlagStuck(c, st, value) ==
  IF Truthy(c.loadingKey)
  THEN SetField(st, c.loadingKey.s, Bool(TRUE))
  ELSE st

\* setLoadingKey(value)
setLoadingKey(c, st, value) ==
  IF Truthy(c.loadingKey)
  THEN Patch(st, Obj(<< <<c.loadingKey.s, Bool(value)>> >>))
  ELSE st

KeyPrefix(c) == IF c.keyPrefix.t = "undef" THEN T_store ELSE c.keyPrefix.s

\* A suffix that ignores the refresh options, whatever refreshSpecificKey
\* says: with it, refresh options never loaded before find an entry.
SharedSuffix(c, p) == <<48>>

\* A suffix that follows the refresh options, whatever refreshSpecificKey
\* says.
PerCallSuffix(c, p) == objectRepresentation(p)

\* cacheKeySuffix
CacheKeySuffix(c, p) ==
  IF c.refreshSpecificKey.t = "undef" \/ Truthy(c.refreshSpecificKey)
  THEN objectRepresentation(p)
  ELSE <<48>>

\* An address whose parts are joined with nothing between them.
Unjoined(c, p) == KeyPrefix(c) \o c.id \o CacheKeySuffix(c, p)

\* [prefix, id, suffix].join('-')
CacheKey(c, p) == KeyPrefix(c) \o <<45>> \o c.id \o <<45>> \o CacheKeySuffix(c, p)

\* An address that the payload is part of: with it, a call with another
\* payload looks elsewhere.
PayloadKey(c, p, pl) == CacheKey(c, p) \o <<45>> \o NumberText(pl.n)

\* The address of $load(p, pl): refreshPayload takes no part in it.
CallKey(c, p, pl) == CacheKey(c, p)

\* A maximum age no entry of the model reaches: with it, nothing expires.
Forever(c) == LongMaxAge

\* A maximum age one millisecond short of the one given.
OneShort(c) == (IF c.maxAge.t = "undef" THEN DEFAULT_MAX_AGE ELSE c.maxAge.n) - 1

MaxAge(c) == IF c.maxAge.t = "undef" THEN DEFAULT_MAX_AGE ELSE c.maxAge.n

\* What the lookup comes back with: the entry's state on a hit, nothing on a
\* miss, or an exception on its way out; and how often it has called the
\* validity predicate.
Miss == [hit |-> FALSE, threw |-> FALSE, state |-> Null, asked |-> 0]
Hit(st) == [hit |-> TRUE, threw |-> FALSE, state |-> st, asked |-> 0]
Threw == [hit |-> FALSE, threw |-> TRUE, state |-> Null, asked |-> 0]

\* The same after one call of the validity predicate.
Asked(r) == [r EXCEPT !.asked = 1]

\* The try block of getExistingCacheData() on the text of an entry: decode
\* throws on what it cannot read, data.timestamp throws on a data of null,
\* and checkValidity may throw; the timestamp and state checks, the age
\* check and a falsy checkValidity return null.
ReadCacheData(c, text, clock, pl) ==
  LET d == decode(text)
      data == d.v
      timestamp == GetField(data, T_timestamp)
      st == GetField(data, T_state)
      valid == checkValidity(st, pl)
  IN IF ~d.ok \/ data.t \in {"null", "undef"} THEN Threw
     ELSE IF ~isFinite(timestamp) \/ TypeOf(st) # "object" THEN Miss
     ELSE IF ToNumber(timestamp).n < clock - MaxAge(c) THEN Miss
     ELSE IF c.checkValidity /\ ~valid.ok THEN Asked(Threw)
     ELSE IF c.checkValidity /\ ~Truthy(valid.v) THEN Asked(Miss)
     ELSE IF c.checkValidity THEN Asked(Hit(st))
     ELSE Hit(st)

\* A lookup without the catch clause: with it, what the try block throws
\* leaves $load.
Uncaught(r) == r

\* catch (error) { return null }
Caught(r) == IF r.threw THEN [Miss EXCEPT !.asked = r.asked] ELSE r

\* A lookup that reads localStorage whether or not the store has a storage.
StoredAnywhere(c, sto, k) == k \in DOMAIN sto /\ sto[k] # <<>>

\* storage.getItem(k) || null is read: a storage, an entry at k, and text in
\* it.
Stored(c, sto, k) == c.storage = "local" /\ k \in DOMAIN sto /\ sto[k] # <<>>

\* getExistingCacheData()
getExistingCacheData(c, sto, key, clock, pl) ==
  IF ~Truthy(key) THEN Miss
  ELSE IF ~Stored(c, sto, key.s) THEN Miss
  ELSE Caught(ReadCacheData(c, sto[key.s], clock, pl))

\* storage.setItem(k, text)
SetItem(sto, k, text) ==
  [a \in DOMAIN sto \cup {k} |-> IF a = k THEN text ELSE sto[a]]

\* A removal that removes nothing: with it, a failed refresh leaves the entry.
Kept(sto, k) == sto

\* storage.removeItem(k)
RemoveItem(sto, k) == [a \in DOMAIN sto \ {k} |-> sto[a]]

\* A lookup that takes the entry out of the storage.
Consumed(sto, k) == [a \in DOMAIN sto \ {k} |-> sto[a]]

\* The storage after storage.getItem(k): as it was.
AfterGetItem(sto, k) == sto

\* A $flushCache that writes nothing.
FlushNothing(c, sto, key, st, clock) == sto

\* A $flushCache that leaves an entry that is already there.
FlushOnce(c, sto, key, st, clock) ==
  IF ~Truthy(key) \/ c.storage = "null" \/ key.s \in DOMAIN sto THEN sto
  ELSE SetItem(sto, key.s,
               encode(Obj(<< <<T_state, st>>, <<T_timestamp, Num(clock)>> >>)))

\* The storage after $flushCache(): nothing changes without a computed key
\* or without a storage.
flushCache(c, sto, key, st, clock) ==
  IF ~Truthy(key) \/ c.storage = "null" THEN sto
  ELSE SetItem(sto, key.s,
               encode(Obj(<< <<T_state, st>>, <<T_timestamp, Num(clock)>> >>)))

StartsWith(txt, pre) == Len(pre) <= Len(txt) /\ SubSeq(txt, 1, Len(pre)) = pre

\* A $clearCache whose loop removes nothing.
Uncleared(c, sto) == sto

\* The storage after the loop of $clearCache().
clearCache(c, sto) ==
  IF c.storage = "null" THEN sto
  ELSE LET keep == {k \in DOMAIN sto :
                      ~StartsWith(k, KeyPrefix(c) \o <<45>> \o c.id \o <<45>>)}
       IN [a \in keep |-> sto[a]]

\* What $load rejects with after refresh threw error: the wrapped Error, or
\* the TypeError of reading error.message of undefined.
RefreshError(error) ==
  IF error.t \in {"undef", "null"}
  THEN [name |-> "TypeError", message |-> T_cannotRead]
  ELSE LET m == GetField(error, T_message)
       IN [name |-> "Error",
           message |-> T_errorWhile \o StoreId
                         \o (IF Truthy(m) THEN <<58, 32>> \o m.s ELSE <<46>>)]

NoError == [name |-> "", message |-> <<>>]

\* The record of the operation that ran last: its name, its call, the
\* call's arguments, the states the store passed through while it ran, how
\* often its lookup called the validity predicate, what the call's refresh
\* threw and what the call rejected with.
Ran(op, c) ==
  [op |-> op, c |-> c, params |-> Null, payload |-> Null, hit |-> FALSE,
   through |-> <<>>, asked |-> 0, thrown |-> Null, error |-> NoError]

\* The states of the store during a $load that hits: after $reset(), after
\* $patch(existingCacheData.state), and after setLoadingKey(false).
HitStates(c, st) ==
  LET reset == Reset(c)
      patched == Patch(reset, st)
  IN <<reset, patched, setLoadingKey(c, patched, FALSE)>>

\* A $load that sets the loading flag first and resets the state after it.
FlagThenReset(c) == <<setLoadingKey(c, Reset(c), TRUE), Reset(c)>>

\* The states of the store during a $load that misses, up to the call of
\* refresh: after $reset() and after setLoadingKey(true).
MissStates(c) == <<Reset(c), setLoadingKey(c, Reset(c), TRUE)>>

\* A $load call: where it is, its arguments while it runs, whether its
\* lookup read an entry, how often it has invoked refresh, and whether no
\* other operation ran during it.
NoCall ==
  [pc |-> "idle", params |-> Null, payload |-> Null, found |-> FALSE,
   invoked |-> 0, alone |-> TRUE]

Active(c) == calls[c].pc \in {"refreshing", "written"}

\* Another operation on the store or its storage ran while these calls were
\* suspended in refresh.
Disturbed(cs) ==
  [c \in Calls |-> IF Active(c) THEN [cs[c] EXCEPT !.alone = FALSE] ELSE cs[c]]

\* The call has settled: its arguments are gone with it.
Settled(call, pc) == [call EXCEPT !.pc = pc, !.params = Null, !.payload = Null]

\* p joins the refresh options loaded so far, unless a deeply equal one is
\* among them.
Loaded(S, p) == IF \E q \in S : DeepEq(q, p) THEN S ELSE S \cup {p}

Init ==
  /\ cfg \in Configs
  /\ state = Defaults(cfg)
  /\ computedCacheKey = Undefined
  /\ storage = <<>>
  /\ now = Clock0
  /\ calls = [c \in Calls |-> NoCall]
  /\ loaded = {}
  /\ env = <<>>
  /\ last = Ran("Init", 0)
  /\ defaults = Defaults(cfg)
  /\ made = defineCachedStore(cfg, defaults)
  /\ made.ok
  /\ stores = <<>>
  /\ input = NoInput
  /\ output = NoOutput

\* What $load rejects with when the lookup lets an exception out.
LookupError == [name |-> "LookupError", message |-> <<>>]

\* $load(p, pl) up to its return on a hit, or up to the call of refresh on a
\* miss.
LoadStart(c, p, pl) ==
  /\ calls[c].pc = "idle"
  /\ IF c = 1 THEN TRUE ELSE calls[c - 1].pc # "idle"
  /\ \E key \in {Str(CallKey(cfg, p, pl))} :
     \E existing \in {getExistingCacheData(cfg, storage, key, now, pl)} :
     LET mine == [NoCall EXCEPT !.params = p, !.payload = pl,
                                !.found = Stored(cfg, storage, key.s),
                                !.alone = \A d \in Calls : ~Active(d)]
         ran == [Ran("LoadStart", c) EXCEPT !.params = p, !.payload = pl,
                                            !.asked = existing.asked]
     IN /\ computedCacheKey' = key
        /\ storage' = AfterGetItem(storage, key.s)
        /\ IF existing.threw
           THEN /\ state' = Reset(cfg)
                /\ calls' = [Disturbed(calls) EXCEPT ![c] = Settled(mine, "failed")]
                /\ last' = [ran EXCEPT !.error = LookupError]
           ELSE IF existing.hit
           THEN /\ state' = HitStates(cfg, existing.state)[3]
                /\ calls' = [Disturbed(calls) EXCEPT ![c] = Settled(mine, "done")]
                /\ last' = [ran EXCEPT !.hit = TRUE,
                                       !.through = HitStates(cfg, existing.state)]
           ELSE /\ state' = MissStates(cfg)[2]
                /\ calls' = [Disturbed(calls) EXCEPT
                               ![c] = [mine EXCEPT !.pc = "refreshing",
                                                   !.invoked = 1]]
                /\ last' = [ran EXCEPT !.through = MissStates(cfg)]
  /\ loaded' = Loaded(loaded, p)
  /\ UNCHANGED <<cfg, now, env, others>>

\* refresh() assigns this.value and stays suspended.
RefreshWrite(c) ==
  /\ calls[c].pc = "refreshing"
  /\ state' = SetField(state, T_value, Num(Calculate(calls[c].params, calls[c].payload)))
  /\ calls' = [calls EXCEPT ![c].pc = "written"]
  /\ last' = Ran("RefreshWrite", c)
  /\ UNCHANGED <<cfg, computedCacheKey, storage, now, loaded, env, others>>

\* refresh() returns and $load goes on after the await.
LoadFinish(c) ==
  /\ calls[c].pc = "written"
  /\ storage' = flushCache(cfg, storage, computedCacheKey, state, now)
  /\ state' = setLoadingKey(cfg, state, FALSE)
  /\ calls' = [calls EXCEPT ![c] = Settled(calls[c], "done")]
  /\ last' = [Ran("LoadFinish", c) EXCEPT !.params = calls[c].params,
                                          !.payload = calls[c].payload]
  /\ UNCHANGED <<cfg, computedCacheKey, now, loaded, env, others>>

\* refresh() throws e, before or after it has assigned this.value, and $load
\* goes on in its catch block.
LoadFail(c, e) ==
  /\ calls[c].pc \in {"refreshing", "written"}
  /\ storage' = IF cfg.storage = "null" THEN storage
                ELSE RemoveItem(storage, computedCacheKey.s)
  /\ state' = setLoadingKey(cfg, state, FALSE)
  /\ calls' = [calls EXCEPT ![c] = Settled(calls[c], "failed")]
  /\ last' = [Ran("LoadFail", c) EXCEPT !.params = calls[c].params,
                                        !.payload = calls[c].payload,
                                        !.thrown = e,
                                        !.error = RefreshError(e)]
  /\ UNCHANGED <<cfg, computedCacheKey, now, loaded, env, others>>

\* $flushCache() called on the store.
FlushCache ==
  /\ Len(env) < MaxEnv
  /\ env' = Append(env, "FlushCache")
  /\ storage' = flushCache(cfg, storage, computedCacheKey, state, now)
  /\ calls' = Disturbed(calls)
  /\ last' = Ran("FlushCache", 0)
  /\ UNCHANGED <<cfg, state, computedCacheKey, now, loaded, others>>

\* $clearCache() called on the store.
ClearCache ==
  /\ Len(env) < MaxEnv
  /\ env' = Append(env, "ClearCache")
  /\ storage' = clearCache(cfg, storage)
  /\ state' = Reset(cfg)
  /\ calls' = Disturbed(calls)
  /\ last' = Ran("ClearCache", 0)
  /\ UNCHANGED <<cfg, computedCacheKey, now, loaded, others>>

\* Other code of the page, or an earlier session, stores text in
\* localStorage at the address of ForeignParams: localStorage is there for
\* the page whether or not the store was given it.
ExternalSetItem(text) ==
  /\ Len(env) < MaxEnv
  /\ env' = Append(env, "ExternalSetItem")
  /\ storage' = SetItem(storage, CacheKey(cfg, ForeignParams), text)
  /\ calls' = Disturbed(calls)
  /\ last' = Ran("ExternalSetItem", 0)
  /\ UNCHANGED <<cfg, state, computedCacheKey, now, loaded, others>>

\* The clock advances by d milliseconds.
Tick(d) ==
  /\ Len(env) < MaxEnv
  /\ env' = Append(env, "Tick")
  /\ now' = now + d
  /\ last' = Ran("Tick", 0)
  /\ UNCHANGED <<cfg, state, computedCacheKey, storage, calls, loaded, others>>

\* No $load call is suspended in its refresh.
Serial == \A c \in Calls : ~Active(c)

\* The store used as section 5 of its documentation asks callers that need
\* mutual exclusion to use it: $load calls one after the other, with the
\* store's other operations, the storage's other writers and the clock free
\* to act at any time.
Next ==
  \/ \E c \in Calls, p \in Params, pl \in Payloads : Serial /\ LoadStart(c, p, pl)
  \/ \E c \in Calls : RefreshWrite(c)
  \/ \E c \in Calls : LoadFinish(c)
  \/ \E c \in Calls, e \in Thrown : LoadFail(c, e)
  \/ FlushCache
  \/ ClearCache
  \/ \E text \in ForeignTexts : ExternalSetItem(text)
  \/ \E d \in {DEFAULT_MAX_AGE, DEFAULT_MAX_AGE + 1} : Tick(d)

Spec == Init /\ [][Next]_vars
----------------------------------------------------------------------------
(* Properties of $load *)

\* The step just taken began, finished or failed $load call c.
Began(c) == calls[c].pc = "idle" /\ calls'[c].pc # "idle"
Finished(c) == calls[c].pc = "written" /\ calls'[c].pc = "done"
Failed(c) == Active(c) /\ calls'[c].pc = "failed"

\* A store with a storage, an address per refresh options and no validity
\* predicate.
KeyedPlain ==
  /\ cfg.storage = "local"
  /\ cfg.refreshSpecificKey = Undefined
  /\ ~cfg.checkValidity

\* So far the store has seen $load calls only, no refresh has failed, nothing
\* else has touched the storage, and no more than maxAge has passed.
OnlyLoads ==
  /\ \A c \in Calls : calls[c].pc # "failed"
  /\ \A i \in DOMAIN env : env[i] = "Tick"
  /\ now - Clock0 <= MaxAge(cfg)

EntryAt(sto, p) ==
  LET d == decode(sto[CacheKey(cfg, p)])
  IN [ok |-> d.ok,
      timestamp |-> GetField(d.v, T_timestamp),
      state |-> GetField(d.v, T_state)]

EntryState(sto, p) == EntryAt(sto, p).state

\* The entry decodes and has a number as timestamp and an object as state.
WellFormed(e) == e.ok /\ e.timestamp.t = "num" /\ e.state.t = "obj"

\* The maxAge the store was given, or the documented default of a day.
GivenMaxAge == IF cfg.maxAge = Undefined THEN 86400000 ELSE cfg.maxAge.n

\* The entry is older than maxAge.
Stale(e) == now - e.timestamp.n > GivenMaxAge

\* The validity predicate accepts the entry's state for payload pl.
Accepted(e, pl) == LET r == checkValidity(e.state, pl) IN r.ok /\ Truthy(r.v)

\* A $load(p, pl) finds an entry it can use.
Usable(p, pl) ==
  /\ Stored(cfg, storage, CacheKey(cfg, p))
  /\ LET e == EntryAt(storage, p)
     IN /\ WellFormed(e)
        /\ ~Stale(e)
        /\ cfg.checkValidity => Accepted(e, pl)

Names(v) == {v.o[i][1] : i \in 1..Len(v.o)}

\* result has the properties of st, those of the defaults for the rest, and
\* FALSE in the properties named in flags.
Restored(result, st, flags) ==
  /\ Names(result) = Names(Defaults(cfg)) \cup Names(st)
  /\ \A k \in Names(result) :
       GetField(result, k) =
         IF k \in flags THEN Bool(FALSE)
         ELSE IF HasField(st, k) THEN GetField(st, k)
         ELSE GetField(Defaults(cfg), k)

LoadingFlags == IF cfg.loadingKey = Undefined THEN {} ELSE {cfg.loadingKey.s}

C3_StaleEntryRefreshed ==
  [][\A c \in Calls :
       /\ (Began(c) /\ Stored(cfg, storage, CacheKey(cfg, last'.params))) =>
            LET e == EntryAt(storage, last'.params)
            IN (WellFormed(e) /\ Stale(e)) =>
                 /\ ~last'.hit
                 /\ calls'[c].pc = "refreshing"
                 /\ calls'[c].invoked = 1
       /\ (Finished(c) /\ calls[c].found) =>
            LET e == EntryAt(storage', last'.params)
            IN /\ calls'[c].invoked = 1
               /\ WellFormed(e)
               /\ e.timestamp = Num(now')
               /\ e.state = state]_vars

\* The second of two calls with the same refresh options, made a
\* millisecond more than the default maxAge after the first, has refreshed
\* and left an entry with the new clock value.
C3_Witness ==
  /\ KeyedPlain /\ cfg.maxAge = Undefined
  /\ env = <<"Tick">> /\ now = Clock0 + DEFAULT_MAX_AGE + 1
  /\ calls[1].pc = "done" /\ calls[1].invoked = 1
  /\ calls[2].pc = "done" /\ calls[2].invoked = 1 /\ calls[2].found
  /\ Cardinality(loaded) = 1
  /\ last.op = "LoadFinish" /\ last.c = 2
  /\ EntryAt(storage, last.params).timestamp = Num(now)

\* What the wrapped error says for a refresh that threw e.
Wrapped(e) ==
  LET m == GetField(e, T_message)
  IN T_errorWhile \o StoreId
       \o (IF m.t = "str" /\ m.s # <<>> THEN <<58, 32>> \o m.s ELSE <<>>)

\* C4: when refresh throws, $load rejects, and the message of what it
\* rejects with starts with 'Error while refreshing cache <id>', followed by
\* ': ' and the original message when there is one.
C4_RejectsWithWrappedError ==
  [][\A c \in Calls :
       (Active(c) /\ last'.op = "LoadFail" /\ last'.c = c) =>
         /\ calls'[c].pc = "failed"
         /\ StartsWith(last'.error.message, Wrapped(last'.thrown))]_vars

\* A refresh has rejected with undefined, and $load with the TypeError of
\* reading its message.
C4_Witness ==
  /\ last.op = "LoadFail" /\ last.thrown = Undefined
  /\ calls[last.c].pc = "failed"
  /\ last.error.name = "TypeError"
  /\ ~StartsWith(last.error.message, T_errorWhile)

\* C5: when the refresh of a $load(p) throws, the store's storage holds no
\* entry at the address of p once the call has rejected, whether or not the
\* call found an entry there.
C5_FailureRemovesEntry ==
  [][\A c \in Calls :
       (cfg.storage = "local" /\ Active(c) /\ calls'[c].pc = "failed") =>
         CacheKey(cfg, calls[c].params) \notin DOMAIN storage']_vars

\* A call that found an entry at its address has failed, and the entry is
\* gone.
C5_Witness ==
  /\ cfg.storage = "local"
  /\ last.op = "LoadFail" /\ calls[last.c].pc = "failed"
  /\ calls[last.c].found
  /\ CacheKey(cfg, last.params) \notin DOMAIN storage

\* C6: when refresh throws, the state after the rejected call is the
\* defaults, whatever refresh did before it threw.
C6_FailureLeavesDefaults ==
  [][\A c \in Calls :
       (Active(c) /\ calls'[c].pc = "failed") => state' = Defaults(cfg)]_vars

\* A refresh has assigned this.value and thrown, and the value is still
\* there after the call has rejected.
C6_Witness ==
  /\ last.op = "LoadFail" /\ calls[last.c].pc = "failed"
  /\ GetField(state, T_value) = Num(Calculate(last.params, last.payload))
  /\ GetField(state, T_value) # GetField(Defaults(cfg), T_value)

\* The text at the address of refresh options p, or none.
TextAt(sto, p) ==
  IF cfg.storage = "local" /\ CacheKey(cfg, p) \in DOMAIN sto
  THEN {sto[CacheKey(cfg, p)]}
  ELSE {}

\* C7: a $load that finds at its address text that is not base64, base64 of
\* text that is not JSON, a marked payload with an odd number of bytes, the
\* empty string, or the encoding of null or of a number, does not reject: it
\* invokes refresh once and waits for it; and a $load call that has rejected
\* has invoked refresh.
C7_CorruptEntryIsMiss ==
  [][\A c \in Calls :
       /\ (Began(c) /\ TextAt(storage, last'.params) \cap CorruptTexts # {}) =>
            /\ calls'[c].pc = "refreshing"
            /\ calls'[c].invoked = 1
            /\ last'.error = NoError
       /\ calls'[c].pc = "failed" => calls'[c].invoked = 1]_vars

\* A $load has found '!YWJj' at its address and is waiting for its refresh.
C7_Witness ==
  /\ last.op = "LoadStart"
  /\ calls[last.c].pc = "refreshing" /\ calls[last.c].invoked = 1
  /\ TextAt(storage, last.params) = {<<33, 89, 87, 74, 106>>}

\* C8: a $load that finds an entry that decodes, but whose timestamp is not
\* a number or whose state is not an object or array, treats it as a miss
\* and invokes refresh, whatever maxAge the store has.
C8_MalformedEntryIsMiss ==
  [][\A c \in Calls :
       (Began(c) /\ Stored(cfg, storage, CacheKey(cfg, last'.params))) =>
         LET e == EntryAt(storage, last'.params)
         IN (e.ok /\ (e.timestamp.t # "num" \/ e.state.t \notin {"obj", "arr"})) =>
              /\ ~last'.hit
              /\ calls'[c].pc = "refreshing"
              /\ calls'[c].invoked = 1]_vars

\* A $load has returned as a hit on an entry whose state is null, or whose
\* timestamp is null, without invoking refresh.
C8_Witness ==
  /\ last.op = "LoadStart" /\ last.hit
  /\ calls[last.c].pc = "done" /\ calls[last.c].invoked = 0
  /\ LET e == EntryAt(storage, last.params)
     IN e.ok /\ (e.state = Null \/ e.timestamp = Null)

\* C9: $load writes and removes nothing in the storage from its start until
\* its refresh has returned or thrown, and nothing at all when it ends as a
\* hit: whatever the lookup found, corrupt, stale or rejected, is still
\* there, and a hit leaves the entry and its timestamp as they were.
C9_LookupLeavesStorage ==
  [][\A c \in Calls :
       /\ Began(c) => storage' = storage
       /\ (calls[c].pc = "refreshing" /\ calls'[c].pc = "written") =>
            storage' = storage]_vars

\* A $load has found an entry it cannot use, has started its refresh, and
\* the entry is still at its address.
C9_Witness ==
  /\ last.op = "LoadStart" /\ ~last.hit
  /\ calls[last.c].pc = "refreshing" /\ calls[last.c].found
  /\ Stored(cfg, storage, CacheKey(cfg, last.params))
  /\ ~WellFormed(EntryAt(storage, last.params))

\* The state's value has the parity of the payload: what the model's
\* store asks of an entry.
SameParity(st, pl) ==
  LET x == GetField(st, T_value) IN x.t = "num" /\ x.n % 2 = pl.n

\* C10: on a store with a validity predicate, a $load that finds a
\* well-formed entry that is not stale is a hit exactly when the predicate
\* accepts the entry's decoded state for that call's payload; when it does
\* not, refresh is invoked, and when that refresh has succeeded the entry
\* holds the new state.
C10_PredicateDecides ==
  [][\A c \in Calls :
       /\ (Began(c) /\ cfg.checkValidity
              /\ Stored(cfg, storage, CacheKey(cfg, last'.params))) =>
            LET e == EntryAt(storage, last'.params)
            IN (WellFormed(e) /\ ~Stale(e)) =>
                 IF SameParity(e.state, last'.payload)
                 THEN /\ last'.hit
                      /\ calls'[c].pc = "done" /\ calls'[c].invoked = 0
                      /\ GetField(state', T_value) = GetField(e.state, T_value)
                 ELSE /\ ~last'.hit
                      /\ calls'[c].pc = "refreshing" /\ calls'[c].invoked = 1
       /\ (Finished(c) /\ cfg.checkValidity /\ calls[c].found) =>
            LET e == EntryAt(storage', last'.params)
            IN /\ WellFormed(e)
               /\ e.state = state]_vars

\* Two calls with the same refresh options and the payloads 0 and 1: the
\* predicate has rejected for the second what the first wrote, and the
\* second has written its own.
C10_Witness ==
  /\ cfg.checkValidity /\ env = <<>>
  /\ calls[1].pc = "done" /\ calls[2].pc = "done"
  /\ calls[2].found /\ calls[2].invoked = 1
  /\ last.op = "LoadFinish" /\ last.c = 2 /\ last.payload = Num(1)
  /\ Cardinality(loaded) = 1
  /\ SameParity(EntryState(storage, last.params), Num(1))

\* C11: the payload takes no part in the address: a $load(p, pl) computes
\* the address of p whatever pl is, and on a store without a validity
\* predicate a call that finds there a fresh entry, written with whatever
\* payload, is a hit that yields the entry's state and leaves the storage
\* with the entries it had.
C11_PayloadNotInKey ==
  [][\A c \in Calls :
       Began(c) =>
         /\ computedCacheKey' = Str(CacheKey(cfg, last'.params))
         /\ (~cfg.checkValidity /\ Usable(last'.params, last'.payload)) =>
              /\ last'.hit /\ calls'[c].invoked = 0
              /\ GetField(state', T_value)
                   = GetField(EntryState(storage, last'.params), T_value)
              /\ storage' = storage]_vars

\* Two calls with the same refresh options and the payloads 0 and 1: the
\* second is a hit, the state is what the first call's payload gave, and
\* the storage holds one entry.
C11_Witness ==
  /\ ~cfg.checkValidity /\ env = <<>>
  /\ calls[1].pc = "done" /\ calls[1].invoked = 1
  /\ last.op = "LoadStart" /\ last.c = 2 /\ last.hit /\ last.payload = Num(1)
  /\ Cardinality(loaded) = 1
  /\ GetField(state, T_value) = Num(Calculate(last.params, Num(0)))
  /\ GetField(state, T_value) # Num(Calculate(last.params, Num(1)))
  /\ Cardinality(DOMAIN storage) = 1

\* The addresses of the store: those that start with '<prefix>-<id>-'.
OwnKeys(sto) ==
  {k \in DOMAIN sto : StartsWith(k, KeyPrefix(cfg) \o <<45>> \o StoreId \o <<45>>)}

\* The step just taken was a $clearCache().
Cleared == last'.op = "ClearCache" /\ env' # env

\* C13: after a $clearCache that no $load call overlaps, the state is the
\* defaults and the store's storage has no entry whose address starts with
\* '<prefix>-<id>-'; and the $load that follows it, whatever its refresh
\* options, invokes refresh.
C13_ClearCacheEmpties ==
  [][/\ (Cleared /\ Serial) =>
          /\ state' = Defaults(cfg)
          /\ cfg.storage = "local" => OwnKeys(storage') = {}
     /\ \A c \in Calls :
          (Began(c) /\ last.op = "ClearCache") =>
            /\ ~last'.hit
            /\ calls'[c].pc = "refreshing"
            /\ calls'[c].invoked = 1]_vars

\* A $load, a $clearCache, and a $load with the same refresh options that
\* is waiting for its refresh.
C13_Witness ==
  /\ KeyedPlain /\ env = <<"ClearCache">>
  /\ calls[1].pc = "done" /\ calls[1].invoked = 1
  /\ last.op = "LoadStart" /\ last.c = 2
  /\ calls[2].pc = "refreshing" /\ calls[2].invoked = 1
  /\ Cardinality(loaded) = 1
  /\ OwnKeys(storage) = {}

\* The one address of a store without per-call keying.
SharedAddress == T_store \o <<45>> \o StoreId \o <<45, 48>>

\* C14: with refreshSpecificKey false every $load uses the address
\* '<prefix>-<id>-0' and the store has no other entry; once a $load has
\* succeeded, later calls (refreshes succeeding, nobody else touching the
\* store, within maxAge) are hits whatever their refresh options: they leave
\* the state as the first call left it, invoke no refresh, and the storage
\* holds exactly that one entry; the $load after a $clearCache invokes
\* refresh, and what it computes comes from its own refresh options.
C14_SharedKeySingleAddress ==
  [][cfg.refreshSpecificKey = Bool(FALSE) =>
       /\ DOMAIN storage' \subseteq {SharedAddress}
       /\ \A c \in Calls :
            /\ Began(c) => computedCacheKey' = Str(SharedAddress)
            /\ (Began(c) /\ OnlyLoads' /\ \E d \in Calls : calls[d].pc = "done") =>
                 /\ last'.hit /\ calls'[c].invoked = 0
                 /\ state' = state
                 /\ storage' = storage
                 /\ DOMAIN storage' = {SharedAddress}
            /\ (Began(c) /\ last.op = "ClearCache") =>
                 calls'[c].pc = "refreshing" /\ calls'[c].invoked = 1
            /\ (Finished(c) /\ calls[c].alone) =>
                 GetField(state', T_value)
                   = Num(Calculate(last'.params, last'.payload))]_vars

\* load({a: 1}) and then a $load with other refresh options: a hit that
\* shows the value of the first.
C14_Witness ==
  /\ cfg.refreshSpecificKey = Bool(FALSE) /\ OnlyLoads
  /\ calls[1].pc = "done" /\ calls[1].invoked = 1
  /\ last.op = "LoadStart" /\ last.c = 2 /\ last.hit /\ calls[2].invoked = 0
  /\ Cardinality(loaded) = 2
  /\ GetField(state, T_value) # Num(Calculate(last.params, last.payload))
  /\ DOMAIN storage = {SharedAddress}

\* C17: on a store with a loading key, the flag is true when a $load that
\* misses calls refresh.
C17_FlagTrueWhenRefreshStarts ==
  [][cfg.loadingKey # Undefined =>
       \A c \in Calls :
         (Began(c) /\ calls'[c].pc = "refreshing") =>
           GetField(state', cfg.loadingKey.s) = Bool(TRUE)]_vars

\* A $load on a store with a loading key has just called refresh.
C17_Witness ==
  /\ cfg.loadingKey # Undefined
  /\ last.op = "LoadStart" /\ ~last.hit
  /\ calls[last.c].pc = "refreshing" /\ calls[last.c].invoked = 1
  /\ GetField(state, T_loading) = Bool(TRUE)

\* The step just taken settled $load call c.
Ended(c) == calls[c].pc \notin {"done", "failed"} /\ calls'[c].pc \in {"done", "failed"}

\* C18: on a store with a loading key, the flag is false when a $load call
\* that no other $load overlaps settles: on a hit, after a refresh that
\* succeeded, and after a refresh that failed.
C18_FlagFalseWhenSettled ==
  [][cfg.loadingKey # Undefined =>
       \A c \in Calls :
         Ended(c) => GetField(state', cfg.loadingKey.s) = Bool(FALSE)]_vars

\* On a store with a loading key the first call refreshed and succeeded or
\* failed, and the second call was a hit or has failed: the flag is false.
C18_Witness ==
  /\ cfg.loadingKey # Undefined
  /\ calls[1].invoked = 1 /\ calls[1].pc \in {"done", "failed"}
  /\ calls[2].pc \in {"done", "failed"}
  /\ \/ last.op = "LoadStart" /\ last.hit
     \/ last.op = "LoadFail" /\ last.c = 2
  /\ GetField(state, T_loading) = Bool(FALSE)

\* The step just taken was a $flushCache() called on the store.
Flushed == last'.op = "FlushCache" /\ env' # env

\* C20: computedCacheKey is nothing before the first $load, each $load sets
\* it to its address and no other operation changes it; a $flushCache()
\* changes nothing in the storage when no $load was ever called, and
\* otherwise (on a store with a storage) writes at that address, and nowhere
\* else, an entry that decodes to the current state and the current time;
\* it invokes no refresh.
C20_FlushWritesAtLastAddress ==
  [][/\ (\A c \in Calls : calls[c].pc = "idle") => computedCacheKey = Undefined
     /\ IF \E c \in Calls : Began(c)
        THEN computedCacheKey' = Str(CacheKey(cfg, last'.params))
        ELSE computedCacheKey' = computedCacheKey
     /\ Flushed =>
          /\ \A c \in Calls : calls'[c].invoked = calls[c].invoked
                                /\ calls'[c].pc = calls[c].pc
          /\ state' = state
          /\ IF calls[1].pc = "idle" \/ cfg.storage = "null"
             THEN storage' = storage
             ELSE /\ DOMAIN storage' = DOMAIN storage \cup {computedCacheKey.s}
                  /\ \A k \in DOMAIN storage \ {computedCacheKey.s} :
                       storage'[k] = storage[k]
                  /\ LET d == decode(storage'[computedCacheKey.s])
                     IN /\ d.ok
                        /\ GetField(d.v, T_state) = state
                        /\ GetField(d.v, T_timestamp) = Num(now)]_vars

\* $flushCache() called while the first $load is suspended in a refresh that
\* has assigned the value: the entry is there before $load has written it.
C20_Witness ==
  /\ cfg.storage = "local"
  /\ last.op = "FlushCache"
  /\ calls[1].pc = "written" /\ calls[1].invoked = 1
  /\ DOMAIN storage = {computedCacheKey.s}
  /\ GetField(decode(storage[computedCacheKey.s]).v, T_state) = state
  /\ GetField(state, T_value) # Num(0)

\* C16: on a store with a loading key, the flag is true in none of the
\* states a $load passes through when it ends as a hit (after the reset,
\* after the entry's state is patched in, after the flag is cleared), and on
\* a miss it is not true after the reset.
C16_FlagNeverTrueOnHit ==
  (cfg.loadingKey # Undefined /\ last.op = "LoadStart") =>
    /\ GetField(last.through[1], cfg.loadingKey.s) # Bool(TRUE)
    /\ last.hit =>
         \A i \in DOMAIN last.through :
           GetField(last.through[i], cfg.loadingKey.s) # Bool(TRUE)

\* A $load has refreshed and succeeded, and a second $load has hit the entry
\* the first one wrote: between its $patch and its setLoadingKey(false) the
\* flag was true.
C16_Witness ==
  /\ cfg.loadingKey # Undefined /\ OnlyLoads
  /\ calls[1].pc = "done" /\ calls[1].invoked = 1
  /\ last.op = "LoadStart" /\ last.c = 2 /\ last.hit
  /\ GetField(last.through[1], T_loading) = Bool(FALSE)
  /\ GetField(last.through[2], T_loading) = Bool(TRUE)
  /\ GetField(last.through[3], T_loading) = Bool(FALSE)
  /\ state = last.through[3]

\* C15: on a store configured with storage null every $load reads no entry,
\* is a miss and invokes refresh, also for refresh options loaded before and
\* also when localStorage holds a usable entry at the address; no operation
\* of the store ($load, its refresh succeeding or failing, $flushCache,
\* $clearCache) changes what localStorage holds; and $clearCache resets the
\* state.
C15_NullStorageAlwaysMisses ==
  [][cfg.storage = "null" =>
       /\ \A c \in Calls :
            Began(c) =>
              /\ ~last'.hit /\ ~calls'[c].found
              /\ calls'[c].pc = "refreshing" /\ calls'[c].invoked = 1
       /\ last'.op # "ExternalSetItem" => storage' = storage
       /\ Cleared => state' = Defaults(cfg)]_vars

\* On a store without a storage the first $load({a: 1, b: 2}) has succeeded,
\* localStorage holds a usable entry at the address these options would
\* have, and a second $load({a: 1, b: 2}) is waiting for its refresh.
C15_Witness ==
  /\ cfg.storage = "null"
  /\ calls[1].pc = "done" /\ calls[1].invoked = 1
  /\ last.op = "LoadStart" /\ last.c = 2 /\ last.params = ForeignParams
  /\ calls[2].pc = "refreshing" /\ calls[2].invoked = 1
  /\ Cardinality(loaded) = 1
  /\ DOMAIN storage = {CacheKey(cfg, ForeignParams)}
  /\ storage[CacheKey(cfg, ForeignParams)] \in GoodTexts

----------------------------------------------------------------------------
(* The construction of a store *)

\* 'missing'
T_missing == <<109, 105, 115, 115, 105, 110, 103>>

\* The loadingKey options of the stores constructed: none, '', 'loading',
\* 'value', 'missing' and 'computedCacheKey'.
LoadingKeys ==
  {Undefined, Str(<<>>), Str(T_loading), Str(T_value), Str(T_missing),
   Str(T_computedCacheKey)}

\* What options.state() returns in the stores constructed: value is 0 or
\* false, loading is absent, false, true, 0, 'x', null or an object, and
\* computedCacheKey is absent or true.
StateDefaults ==
  {Obj(<< <<T_value, Num(0)>> >>),
   Obj(<< <<T_value, Bool(FALSE)>> >>),
   Obj(<< <<T_loading, Bool(FALSE)>>, <<T_value, Num(0)>> >>),
   Obj(<< <<T_loading, Bool(TRUE)>>, <<T_value, Num(0)>> >>),
   Obj(<< <<T_loading, Num(0)>>, <<T_value, Num(0)>> >>),
   Obj(<< <<T_loading, Str(<<120>>)>>, <<T_value, Num(0)>> >>),
   Obj(<< <<T_loading, Null>>, <<T_value, Num(0)>> >>),
   Obj(<< <<T_loading, Obj(<<>>)>>, <<T_value, Num(0)>> >>),
   Obj(<< <<T_computedCacheKey, Bool(TRUE)>>, <<T_value, Num(0)>> >>),
   Obj(<< <<T_computedCacheKey, Bool(TRUE)>>, <<T_loading, Bool(FALSE)>>,
          <<T_value, Num(0)>> >>)}

\* The caching options of the stores constructed: a loading key and nothing
\* else.
DefineConfigs ==
  [id : {StoreId},
   keyPrefix : {Undefined},
   refreshSpecificKey : {Undefined},
   maxAge : {Undefined},
   checkValidity : {FALSE},
   loadingKey : LoadingKeys,
   storage : {"local"}]

\* Before defineCachedStore(options) is called: there is no store.
DefineInit ==
  /\ cfg \in DefineConfigs
  /\ defaults \in StateDefaults
  /\ made = Pending
  /\ state = Undefined
  /\ computedCacheKey = Undefined
  /\ storage = <<>>
  /\ now = Clock0
  /\ calls = [c \in Calls |-> NoCall]
  /\ loaded = {}
  /\ env = <<>>
  /\ last = Ran("Init", 0)
  /\ stores = <<>>
  /\ input = NoInput
  /\ output = NoOutput

\* defineCachedStore(options)
DefineStore ==
  /\ ~made.called
  /\ made' = defineCachedStore(cfg, defaults)
  /\ last' = Ran("defineCachedStore", 0)
  /\ UNCHANGED <<cfg, state, computedCacheKey, storage, now, calls, loaded, env,
                 defaults, stores, input, output>>

\* useStore(): the store definition that defineCachedStore returned is
\* instantiated, with options.state() as its state.
UseStore ==
  /\ made.ok
  /\ state = Undefined
  /\ state' = defaults
  /\ last' = Ran("useStore", 0)
  /\ UNCHANGED <<cfg, computedCacheKey, storage, now, calls, loaded, env,
                 defaults, made, stores, input, output>>

DefineNext == DefineStore \/ UseStore

Define == DefineInit /\ [][DefineNext]_vars

\* txt contains part.
Contains(txt, part) ==
  \E i \in 0..(Len(txt) - Len(part)) : SubSeq(txt, i + 1, i + Len(part)) = part

\* A loading key is configured: the option is given and names something.
Configured == cfg.loadingKey # Undefined /\ cfg.loadingKey # Str(<<>>)

\* The loading key names a boolean property of the state defaults, and not
\* the reserved name.
NamesBoolean ==
  /\ cfg.loadingKey.s # <<99, 111, 109, 112, 117, 116, 101, 100, 67, 97, 99, 104, 101, 75, 101, 121>>
  /\ HasField(defaults, cfg.loadingKey.s)
  /\ GetField(defaults, cfg.loadingKey.s) \in {Bool(TRUE), Bool(FALSE)}

\* C19: once defineCachedStore has been called, it has thrown an Error whose
\* message contains 'invalid loading key', and there is no store, when a
\* loading key was configured that is the reserved name 'computedCacheKey'
\* or names no boolean property of the state defaults (a missing one, or
\* one that holds a number, a string, null or an object); it has returned
\* a store definition when the key names a boolean property or when none
\* was configured.
C19_InvalidLoadingKeyRefused ==
  made.called =>
    IF Configured /\ ~NamesBoolean
    THEN /\ ~made.ok
         /\ Contains(made.message, <<105, 110, 118, 97, 108, 105, 100, 32, 108, 111, 97, 100, 105, 110, 103, 32, 107, 101, 121>>)
         /\ state = Undefined
    ELSE made.ok /\ made.message = <<>>

\* defineCachedStore has refused the loading key 'computedCacheKey' for
\* state defaults in which computedCacheKey is a boolean.
C19_Witness ==
  /\ made.called /\ ~made.ok
  /\ cfg.loadingKey = Str(T_computedCacheKey)
  /\ GetField(defaults, T_computedCacheKey) = Bool(TRUE)
  /\ state = Undefined

----------------------------------------------------------------------------
(* Two stores on one page, sharing localStorage *)

MaxOps == 3

\* The other store.
Peer(n) == 3 - n

\* options.id of the two stores: 'a', 'a-b', 'b-c' or '☸' (U+2638).
StoreIds == {<<97>>, <<97, 45, 98>>, <<98, 45, 99>>, <<9784>>}

\* Their keyPrefix options: none or 'a'.
KeyPrefixes == {Undefined, Str(<<97>>)}

\* Their caching options: an id, a key prefix and perhaps a loading key.
StoreConfigs ==
  [id : StoreIds,
   keyPrefix : KeyPrefixes,
   refreshSpecificKey : {Undefined},
   maxAge : {Undefined},
   checkValidity : {FALSE},
   loadingKey : {Undefined, Str(T_loading)},
   storage : {"local"}]

\* The refresh options of their $load calls: { a: 1 } and { a: 1, b: 2 }.
StoreParams == {p \in Params : p.o[1][1] = <<97>>}

\* '💀☸': a surrogate pair and U+2638.
T_pirates == <<55357, 56448, 9784>>

\* What the refresh of these stores assigns to this.value: the number
\* Calculate gives for { a: 1 }, a text with code units above 0xFF for
\* { a: 1, b: 2 }, and nothing at all for {}.
StoreResult(p, pl) ==
  IF p.o = <<>> THEN Undefined
  ELSE IF HasField(p, <<98>>) THEN Str(T_pirates)
  ELSE Num(Calculate(p, pl))

\* A store as useStore() returns it: its options, its $state, its
\* computedCacheKey, the addresses that hold an entry it was the last to
\* write and has not removed itself, and for each of them the state the
\* store was left in by the $load that wrote the entry.
NewStore(c) ==
  [cfg |-> c, state |-> Defaults(c), computedCacheKey |-> Undefined,
   wrote |-> {}, left |-> <<>>]

\* Two stores with different ids, the second without a loading key, and an
\* empty localStorage.
StoresInit ==
  /\ stores \in {f \in [1..2 -> {NewStore(c) : c \in StoreConfigs}] :
                   /\ f[1].cfg.id # f[2].cfg.id
                   /\ f[2].cfg.loadingKey = Undefined}
  /\ storage = <<>>
  /\ now = Clock0
  /\ env = <<>>
  /\ last = Ran("Init", 0)
  /\ cfg = CHOOSE c \in Configs :
             /\ c.refreshSpecificKey = Undefined /\ c.maxAge = Undefined
             /\ ~c.checkValidity /\ c.loadingKey = Undefined
             /\ c.storage = "local"
  /\ state = Undefined
  /\ computedCacheKey = Undefined
  /\ calls = [c \in Calls |-> NoCall]
  /\ loaded = {}
  /\ defaults = Defaults(cfg)
  /\ made = Defined
  /\ input = NoInput
  /\ output = NoOutput

\* Store n runs $load(p, pl) to its end, its refresh succeeding: a hit
\* patches the entry in, a miss refreshes and writes the entry.
StoreLoad(n, p, pl) ==
  /\ Len(env) < MaxOps
  /\ env' = Append(env, "StoreLoad")
  /\ \E key \in {Str(CallKey(stores[n].cfg, p, pl))} :
     \E existing \in {getExistingCacheData(stores[n].cfg, storage, key, now, pl)} :
     LET c == stores[n].cfg
         refreshed == IF StoreResult(p, pl) = Undefined THEN MissStates(c)[2]
                      ELSE SetField(MissStates(c)[2], T_value, StoreResult(p, pl))
         settled == setLoadingKey(c, refreshed, FALSE)
         ran == [Ran("StoreLoad", n) EXCEPT !.params = p, !.payload = pl,
                                            !.asked = existing.asked]
     IN IF existing.threw
        THEN /\ stores' = [stores EXCEPT ![n].state = Reset(c),
                                         ![n].computedCacheKey = key]
             /\ storage' = AfterGetItem(storage, key.s)
             /\ last' = [ran EXCEPT !.error = LookupError]
        ELSE IF existing.hit
        THEN /\ stores' = [stores EXCEPT
                             ![n].state = HitStates(c, existing.state)[3],
                             ![n].computedCacheKey = key]
             /\ storage' = AfterGetItem(storage, key.s)
             /\ last' = [ran EXCEPT !.hit = TRUE]
        ELSE /\ stores' = [stores EXCEPT
                             ![n].state = settled,
                             ![n].computedCacheKey = key,
                             ![n].wrote = @ \cup {key.s},
                             ![n].left = [k \in DOMAIN @ \cup {key.s} |->
                                           IF k = key.s THEN settled ELSE @[k]],
                             ![Peer(n)].wrote = @ \ {key.s},
                             ![Peer(n)].left = [k \in DOMAIN @ \ {key.s} |-> @[k]]]
             /\ storage' = flushCache(c, storage, key, refreshed, now)
             /\ last' = ran
  /\ UNCHANGED <<cfg, state, computedCacheKey, now, calls, loaded, defaults,
                 made, input, output>>

\* Store n runs $clearCache().
StoreClear(n) ==
  /\ Len(env) < MaxOps
  /\ env' = Append(env, "StoreClear")
  /\ storage' = clearCache(stores[n].cfg, storage)
  /\ stores' = [stores EXCEPT ![n].state = Reset(stores[n].cfg),
                              ![n].wrote = {},
                              ![n].left = <<>>]
  /\ last' = Ran("StoreClear", n)
  /\ UNCHANGED <<cfg, state, computedCacheKey, now, calls, loaded, defaults,
                 made, input, output>>

\* The page calls $reset() on store n.
StoreReset(n) ==
  /\ Len(env) < MaxOps
  /\ env' = Append(env, "StoreReset")
  /\ stores' = [stores EXCEPT ![n].state = Reset(stores[n].cfg)]
  /\ last' = Ran("StoreReset", n)
  /\ UNCHANGED <<cfg, state, computedCacheKey, storage, now, calls, loaded,
                 defaults, made, input, output>>

StoresNext ==
  \/ \E n \in 1..2, p \in StoreParams : StoreLoad(n, p, Num(0))
  \/ \E n \in 1..2 : StoreClear(n)
  \/ \E n \in 1..2 : StoreReset(n)

Stores == StoresInit /\ [][StoresNext]_vars

\* C12: a $clearCache() of one store removes every entry that store wrote,
\* leaves every entry of the other store (which has a different id) in
\* localStorage as it was, and leaves the other store's state unchanged,
\* whatever the ids and key prefixes of the two are.
C12_ClearCacheOnlyOwnEntries ==
  [][\A n \in 1..2 :
       (last'.op = "StoreClear" /\ last'.c = n /\ env' # env) =>
         /\ \A k \in stores[n].wrote : k \notin DOMAIN storage'
         /\ \A k \in stores[Peer(n)].wrote \cap DOMAIN storage :
              k \in DOMAIN storage' /\ storage'[k] = storage[k]
         /\ stores'[Peer(n)].state = stores[Peer(n)].state]_vars

\* The store with id 'a' has cleared its cache, and an entry that the store
\* with id 'a-b' and the same key prefix wrote is gone, while that store
\* still shows the value it loaded.
C12_Witness ==
  /\ last.op = "StoreClear"
  /\ stores[last.c].cfg.id = <<97>>
  /\ stores[Peer(last.c)].cfg.id = <<97, 45, 98>>
  /\ stores[last.c].cfg.keyPrefix = stores[Peer(last.c)].cfg.keyPrefix
  /\ \E k \in stores[Peer(last.c)].wrote : k \notin DOMAIN storage
  /\ GetField(stores[Peer(last.c)].state, T_value) # Num(0)

\* C25: when a store runs $load(p) and the entry that its own earlier
\* $load(p) wrote is still in the storage, the call is a hit and leaves the
\* store in the data state that earlier call left it in, whatever was done
\* to the state in between, for state text and store ids above 0xFF too.
C25_HitRestoresState ==
  [][\A n \in 1..2 :
       (env' # env /\ last'.op = "StoreLoad" /\ last'.c = n) =>
         LET k == CallKey(stores[n].cfg, last'.params, last'.payload)
         IN (k \in DOMAIN stores[n].left /\ k \in DOMAIN storage) =>
              /\ last'.hit
              /\ stores'[n].state = stores[n].left[k]]_vars

\* The store with id '☸' and a loading key has loaded '💀☸', has been
\* reset, and has loaded again with a hit: it shows '💀☸' and is not
\* loading.
C25_Witness ==
  /\ env = <<"StoreLoad", "StoreReset", "StoreLoad">>
  /\ last.op = "StoreLoad" /\ last.c = 1 /\ last.hit
  /\ stores[1].cfg.id = <<9784>>
  /\ stores[1].cfg.loadingKey = Str(T_loading)
  /\ GetField(stores[1].state, T_value) = Str(T_pirates)
  /\ GetField(stores[1].state, T_loading) = Bool(FALSE)
  /\ stores[2].state = Defaults(stores[2].cfg)

----------------------------------------------------------------------------
(* The functions of utils.ts called on their own *)

\* null, true, false, 0, 5, 4 and -3.
Scalars ==
  {Null,
   Bool(TRUE),
   Bool(FALSE),
   Num(0),
   Num(5),
   Num(4),
   Num(-3)}

\* '', 'Hello', '5', 'a"\\', 'é', 'Şar', '☸', '💀' (a surrogate pair).
Strings ==
  {Str(<<>>),
   Str(<<72, 101, 108, 108, 111>>),
   Str(<<53>>),
   Str(<<97, 34, 92>>),
   Str(<<233>>),
   Str(<<350, 97, 114>>),
   Str(<<9784>>),
   Str(<<55357, 56448>>)}

\* [], [1, 2], [2, 1], [[1], 2], ['Şar'] and [null].
Lists ==
  {Arr(<<>>),
   Arr(<<Num(1), Num(2)>>),
   Arr(<<Num(2), Num(1)>>),
   Arr(<<Arr(<<Num(1)>>), Num(2)>>),
   Arr(<<Str(<<350, 97, 114>>)>>),
   Arr(<<Null>>)}

\* {}, { hello: 'world' }, { value: 5 }, { value: 4 }, { input: 5 },
\* { a: 1 }, { a: 1, b: 2 }, { b: 2, a: 1 }, { whooo: 'Şar' }, { 'Şar': 1 },
\* { p: { q: 1 } } and { p: { q: 2 } }.
Mappings ==
  {Obj(<<>>),
   Obj(<<<<<<104, 101, 108, 108, 111>>, Str(<<119, 111, 114, 108,
    100>>)>>>>),
   Obj(<<<<<<118, 97, 108, 117, 101>>, Num(5)>>>>),
   Obj(<<<<<<118, 97, 108, 117, 101>>, Num(4)>>>>),
   Obj(<<<<<<105, 110, 112, 117, 116>>, Num(5)>>>>),
   Obj(<<<<<<97>>, Num(1)>>>>),
   Obj(<<<<<<97>>, Num(1)>>, <<<<98>>, Num(2)>>>>),
   Obj(<<<<<<98>>, Num(2)>>, <<<<97>>, Num(1)>>>>),
   Obj(<<<<<<119, 104, 111, 111, 111>>, Str(<<350, 97, 114>>)>>>>),
   Obj(<<<<<<350, 97, 114>>, Num(1)>>>>),
   Obj(<<<<<<112>>, Obj(<<<<<<113>>, Num(1)>>>>)>>>>),
   Obj(<<<<<<112>>, Obj(<<<<<<113>>, Num(2)>>>>)>>>>)}

\* { this: { goes: true, for: false }, deeper: { things: 'too' } } with the
\* properties of this, and of the whole, in both orders, and
\* { a: [{ x: 1, y: 2 }] } with the properties of the element in both orders.
Nested ==
  {Obj(<<<<<<116, 104, 105, 115>>, Obj(<<<<<<103, 111, 101, 115>>,
    Bool(TRUE)>>, <<<<102, 111, 114>>, Bool(FALSE)>>>>)>>, <<<<100, 101, 101,
    112, 101, 114>>, Obj(<<<<<<116, 104, 105, 110, 103, 115>>, Str(<<116,
    111, 111>>)>>>>)>>>>),
   Obj(<<<<<<116, 104, 105, 115>>, Obj(<<<<<<102, 111, 114>>, Bool(FALSE)>>,
    <<<<103, 111, 101, 115>>, Bool(TRUE)>>>>)>>, <<<<100, 101, 101, 112, 101,
    114>>, Obj(<<<<<<116, 104, 105, 110, 103, 115>>, Str(<<116, 111,
    111>>)>>>>)>>>>),
   Obj(<<<<<<100, 101, 101, 112, 101, 114>>, Obj(<<<<<<116, 104, 105, 110,
    103, 115>>, Str(<<116, 111, 111>>)>>>>)>>, <<<<116, 104, 105, 115>>,
    Obj(<<<<<<103, 111, 101, 115>>, Bool(TRUE)>>, <<<<102, 111, 114>>,
    Bool(FALSE)>>>>)>>>>),
   Obj(<<<<<<100, 101, 101, 112, 101, 114>>, Obj(<<<<<<116, 104, 105, 110,
    103, 115>>, Str(<<116, 111, 111>>)>>>>)>>, <<<<116, 104, 105, 115>>,
    Obj(<<<<<<102, 111, 114>>, Bool(FALSE)>>, <<<<103, 111, 101, 115>>,
    Bool(TRUE)>>>>)>>>>),
   Obj(<<<<<<97>>, Arr(<<Obj(<<<<<<120>>, Num(1)>>, <<<<121>>,
    Num(2)>>>>)>>)>>>>),
   Obj(<<<<<<97>>, Arr(<<Obj(<<<<<<121>>, Num(2)>>, <<<<120>>,
    Num(1)>>>>)>>)>>>>)}

\* The values the functions are called with.
Values == Scalars \cup Strings \cup Lists \cup Mappings \cup Nested

\* Two values, and no store.
UtilsInit ==
  /\ input \in Values \X Values
  /\ output = NoOutput
  /\ cfg = CHOOSE c \in Configs :
             /\ c.refreshSpecificKey = Undefined /\ c.maxAge = Undefined
             /\ ~c.checkValidity /\ c.loadingKey = Undefined
             /\ c.storage = "local"
  /\ state = Undefined
  /\ computedCacheKey = Undefined
  /\ storage = <<>>
  /\ now = Clock0
  /\ calls = [c \in Calls |-> NoCall]
  /\ loaded = {}
  /\ env = <<>>
  /\ last = Ran("Init", 0)
  /\ defaults = Defaults(cfg)
  /\ made = Pending
  /\ stores = <<>>

\* What the functions of utils.ts leave alone.
storeVars ==
  <<cfg, state, computedCacheKey, storage, now, calls, loaded, env, last,
    defaults, made, stores>>

\* encode(v) for the first value.
Encode ==
  /\ output.op = "none"
  /\ output' = [op |-> "encode", text |-> encode(input[1])]
  /\ UNCHANGED <<input, storeVars>>

\* decode(text) for the text that encode returned.
Decode ==
  /\ output.op = "encode"
  /\ output' = [op |-> "decode", text |-> output.text, res |-> decode(output.text)]
  /\ UNCHANGED <<input, storeVars>>

\* objectRepresentation(v) for each of the two values.
Represent ==
  /\ output.op = "none"
  /\ output' = [op |-> "objectRepresentation",
                a |-> objectRepresentation(input[1]),
                b |-> objectRepresentation(input[2])]
  /\ UNCHANGED <<input, storeVars>>

UtilsNext == Encode \/ Decode \/ Represent

Utils == UtilsInit /\ [][UtilsNext]_vars

\* C21: what decode makes of the text encode returned for a value is deeply
\* equal to the value, for a JSON text of code units up to 0xFF (the plain
\* path) and for one with a code unit above (the byte pairs after '!').
C21_DecodeInvertsEncode ==
  output.op = "decode" =>
    /\ output.res.ok
    /\ DeepEq(output.res.v, input[1])
    /\ DeepEq(input[1], output.res.v)

\* { whooo: 'Şar' } has gone through the byte pairs and come back.
C21_Witness ==
  /\ output.op = "decode"
  /\ input[1] = Obj(<<<<<<119, 104, 111, 111, 111>>, Str(<<350, 97, 114>>)>>>>)
  /\ output.text[1] = 33
  /\ output.res.ok /\ output.res.v = input[1]

\* C22: objectRepresentation returns the same text for two values that are
\* deeply equal, the order of the properties of their mappings aside, at the
\* top and below.
C22_KeyOrderIndependent ==
  (output.op = "objectRepresentation"
     /\ DeepEq(input[1], input[2]) /\ DeepEq(input[2], input[1])) =>
    output.a = output.b

\* Two mappings whose properties come in another order at the top and in a
\* nested mapping have one representation.
C22_Witness ==
  /\ output.op = "objectRepresentation"
  /\ input[1].t = "obj" /\ input[2].t = "obj"
  /\ Len(input[1].o) = 2 /\ Len(input[2].o) = 2
  /\ input[1].o[1][1] = input[2].o[2][1]
  /\ input[1].o[1][2].t = "obj" /\ Len(input[1].o[1][2].o) = 2
  /\ input[1].o[1][2] # input[2].o[2][2]
  /\ DeepEq(input[1], input[2])
  /\ output.a = output.b

\* C23: objectRepresentation returns different texts for two of the values
\* (scalars, strings, lists, flat and nested mappings, mappings that differ
\* in one value or in one name) that are not deeply equal up to the order of
\* properties.
C23_DifferentValuesDifferentKeys ==
  (output.op = "objectRepresentation" /\ ~DeepEq(input[1], input[2])) =>
    output.a # output.b

\* { p: { q: 1 } } and { p: { q: 2 } } have different representations.
C23_Witness ==
  /\ output.op = "objectRepresentation"
  /\ HasField(input[1], <<112>>) /\ HasField(input[2], <<112>>)
  /\ GetField(GetField(input[1], <<112>>), <<113>>) = Num(1)
  /\ GetField(GetField(input[2], <<112>>), <<113>>) = Num(2)
  /\ output.a # output.b

\* The JSON text of the first value has a code unit above 0xFF.
Wide == \E i \in 1..Len(Stringify(input[1])) : Stringify(input[1])[i] > 255

\* btoa('"Hello"') and btoa('{"hello":"world"}')
B64_Hello ==
  <<73, 107, 104, 108, 98, 71, 120, 118, 73, 103, 61, 61>>
B64_HelloWorld ==
  <<101, 121, 74, 111, 90, 87, 120, 115, 98, 121, 73, 54, 73, 110, 100, 118,
    99, 109, 120, 107, 73, 110, 48, 61>>

\* C24: what encode returns starts with '!' exactly when the JSON text of
\* the value has a code unit above 0xFF; when it has none, encode returns
\* btoa of the JSON text ('IkhlbGxvIg==' for 'Hello'), and decode reads
\* that text back to the value.
C24_PlainPathIsBase64 ==
  /\ output.op = "encode" =>
       /\ output.text[1] = 33 <=> Wide
       /\ ~Wide => output.text = btoa(Stringify(input[1])).v
       /\ input[1] = Str(<<72, 101, 108, 108, 111>>) => output.text = B64_Hello
       /\ input[1] = Obj(<< <<<<104, 101, 108, 108, 111>>, Str(<<119, 111, 114, 108, 100>>)>> >>)
            => output.text = B64_HelloWorld
  /\ (output.op = "decode" /\ ~Wide) =>
       /\ output.text = btoa(Stringify(input[1])).v
       /\ output.res.ok /\ output.res.v = input[1]

\* { hello: 'world' } was encoded to 'eyJoZWxsbyI6IndvcmxkIn0=' and decoded.
C24_Witness ==
  /\ output.op = "decode"
  /\ ~Wide
  /\ output.text = B64_HelloWorld
  /\ output.res.ok /\ output.res.v = input[1]

----------------------------------------------------------------------------
(* $load calls that overlap *)

\* The store used without the mutual exclusion of section 5: a $load may
\* start while another is suspended in its refresh, and $clearCache() may
\* run at any time.
RaceNext ==
  \/ \E c \in Calls, p \in Params, pl \in Payloads : LoadStart(c, p, pl)
  \/ \E c \in Calls : RefreshWrite(c)
  \/ \E c \in Calls : LoadFinish(c)
  \/ \E c \in Calls, e \in Thrown : LoadFail(c, e)
  \/ ClearCache

Race == Init /\ [][RaceNext]_vars

\* $load call c has just begun while another call was suspended in its
\* refresh.
Overlapping(c) == Began(c) /\ \E d \in Calls \ {c} : Active(d)

\* C26: a $load that begins while another is suspended in its refresh, and
\* finds no usable entry at its address, resets the state, misses and
\* invokes refresh, the other call's invocation still running: two
\* invocations in all.  Each of the two that comes back from a successful
\* refresh writes its entry, so what the storage holds at the computed
\* address after both is the entry of the call that wrote last: the state
\* and the time of that write.
C26_OverlappingLoadsBothRefresh ==
  [][\A c \in Calls :
       /\ (Overlapping(c) /\ ~Usable(last'.params, last'.payload)) =>
            /\ last'.through[1] = Defaults(cfg)
            /\ ~last'.hit
            /\ calls'[c].pc = "refreshing" /\ calls'[c].invoked = 1
            /\ \A d \in Calls \ {c} :
                 Active(d) => calls'[d].pc = calls[d].pc /\ calls'[d].invoked = 1
       /\ (Finished(c) /\ cfg.storage = "local") =>
            /\ computedCacheKey.s \in DOMAIN storage'
            /\ LET d == decode(storage'[computedCacheKey.s])
               IN /\ d.ok
                  /\ GetField(d.v, T_state) = state
                  /\ GetField(d.v, T_timestamp) = Num(now)]_vars

\* Two $load calls for different refresh options overlapped and both came
\* back from their refresh, the first call last: both invoked refresh, and
\* the one entry in the storage holds the value that the first call's
\* refresh assigned last.
C26_Witness ==
  /\ cfg.storage = "local" /\ env = <<>>
  /\ calls[1].pc = "done" /\ calls[2].pc = "done"
  /\ calls[1].invoked = 1 /\ calls[2].invoked = 1
  /\ ~calls[1].alone /\ ~calls[2].alone
  /\ last.op = "LoadFinish" /\ last.c = 1
  /\ DOMAIN storage = {computedCacheKey.s}
  /\ LET d == decode(storage[computedCacheKey.s])
     IN /\ d.ok
        /\ GetField(GetField(d.v, T_state), T_value)
             = Num(Calculate(last.params, last.payload))
        /\ GetField(state, T_value) = Num(Calculate(last.params, last.payload))

\* C27: on a store with a loading key, the flag is true for as long as a
\* refresh that a $load has invoked has neither returned nor thrown,
\* whatever else runs on the store in the meantime.
C27_FlagHeldWhileRefreshing ==
  (cfg.loadingKey # Undefined /\ \E c \in Calls : Active(c)) =>
    GetField(state, cfg.loadingKey.s) = Bool(TRUE)

\* $clearCache() has run while the first $load is suspended in its
\* refresh: the flag is false and the refresh has not come back.
C27_Witness ==
  /\ cfg.loadingKey # Undefined
  /\ last.op = "ClearCache"
  /\ calls[1].pc = "refreshing" /\ calls[1].invoked = 1
  /\ calls[2].pc = "idle"
  /\ GetField(state, T_loading) = Bool(FALSE)

----------------------------------------------------------------------------
(* What a $load leaves of the state it found *)

\* The refresh options of these calls: {}, { a: 1 } and { a: 1, b: 2 }.
PriorParams == StoreParams \cup {Obj(<<>>)}

\* What the page assigns to store.value between calls: 5 or 'x'.
PriorValues == {Num(5), Str(<<120>>)}

\* The store with id 'a', with or without a loading key, beside a store
\* that stays as it is.
PriorInit ==
  /\ StoresInit
  /\ stores[1].cfg.id = <<97>> /\ stores[1].cfg.keyPrefix = Undefined
  /\ stores[2].cfg.id = <<98, 45, 99>> /\ stores[2].cfg.keyPrefix = Undefined

\* The page assigns store.value = v.
StoreAssign(n, v) ==
  /\ Len(env) < MaxOps
  /\ env' = Append(env, "StoreAssign")
  /\ stores' = [stores EXCEPT ![n].state = SetField(@, T_value, v)]
  /\ last' = Ran("StoreAssign", n)
  /\ UNCHANGED <<cfg, state, computedCacheKey, storage, now, calls, loaded,
                 defaults, made, input, output>>

PriorNext ==
  \/ \E p \in PriorParams : StoreLoad(1, p, Num(0))
  \/ \E v \in PriorValues : StoreAssign(1, v)
  \/ StoreReset(1)
  \/ StoreClear(1)

Prior == PriorInit /\ [][PriorNext]_vars

\* The state a whole $load(p, pl) with a refresh that succeeds leaves a
\* store with options c in, worked out from the state defaults, the call's
\* arguments and the storage alone.
Outcome(c, sto, p, pl) ==
  LET found == getExistingCacheData(c, sto, Str(CacheKey(c, p)), now, pl)
      loading == setLoadingKey(c, Defaults(c), TRUE)
      r == StoreResult(p, pl)
  IN IF found.hit
     THEN setLoadingKey(c, Patch(Defaults(c), found.state), FALSE)
     ELSE setLoadingKey(c,
                        IF r = Undefined THEN loading
                        ELSE SetField(loading, T_value, r),
                        FALSE)

\* C28: the state a $load that succeeds leaves is determined by the state
\* defaults, the refresh options, the payload and the entry at the call's
\* address: nothing of the state the call found is left, whether the page
\* assigned to it, an earlier call loaded it, or the refresh assigns
\* nothing.
C28_PriorStateDoesNotLeak ==
  [][\A n \in 1..2 :
       (env' # env /\ last'.op = "StoreLoad" /\ last'.c = n) =>
         stores'[n].state
           = Outcome(stores[n].cfg, storage, last'.params, last'.payload)]_vars

\* The page has assigned store.value, and a $load({}) whose refresh assigns
\* nothing has missed and succeeded: the store shows its defaults.
C28_Witness ==
  /\ env = <<"StoreAssign", "StoreLoad">>
  /\ last.op = "StoreLoad" /\ last.c = 1 /\ ~last.hit
  /\ last.params = Obj(<<>>)
  /\ stores[1].state = Defaults(stores[1].cfg)
  /\ DOMAIN storage = {CacheKey(stores[1].cfg, Obj(<<>>))}

----------------------------------------------------------------------------
(* The phases of a $load call *)

\* The steps a $load call takes: it returns on a hit or calls refresh on a
\* miss; refresh assigns and returns, or throws before or after assigning.
PhaseSteps ==
  {<<"idle", "done">>, <<"idle", "refreshing">>, <<"refreshing", "written">>,
   <<"written", "done">>, <<"refreshing", "failed">>, <<"written", "failed">>}

\* C29: a $load call resets the state, computes its address and looks the
\* entry up, in this order and without writing to the storage.  When the
\* lookup reports an entry the call patches it into the reset state, sets
\* the flag false and ends, invoking no refresh; when it reports a miss the
\* call sets the flag true and invokes refresh, once.  Nothing is written
\* while refresh runs; when refresh returns, the call writes the entry and
\* sets the flag false; when refresh throws, the call removes the entry,
\* sets the flag false and rejects.  A call takes no other steps.
C29_PhasesInOrder ==
  [][\A c \in Calls :
       /\ calls'[c].pc # calls[c].pc => <<calls[c].pc, calls'[c].pc>> \in PhaseSteps
       /\ calls'[c].invoked # calls[c].invoked =>
            calls[c].pc = "idle" /\ calls'[c].pc = "refreshing"
       /\ Began(c) =>
            LET key == Str(CacheKey(cfg, last'.params))
                found == getExistingCacheData(cfg, storage, key, now, last'.payload)
                patched == Patch(Defaults(cfg), found.state)
            IN /\ computedCacheKey' = key
               /\ storage' = storage
               /\ IF found.hit
                  THEN /\ calls'[c].pc = "done" /\ calls'[c].invoked = 0
                       /\ last'.through
                            = <<Defaults(cfg), patched,
                                setLoadingKey(cfg, patched, FALSE)>>
                       /\ state' = last'.through[3]
                  ELSE /\ calls'[c].pc = "refreshing" /\ calls'[c].invoked = 1
                       /\ last'.through
                            = <<Defaults(cfg),
                                setLoadingKey(cfg, Defaults(cfg), TRUE)>>
                       /\ state' = last'.through[2]
       /\ (calls[c].pc = "refreshing" /\ calls'[c].pc = "written") =>
            storage' = storage
       /\ Finished(c) =>
            /\ cfg.storage = "local" =>
                 /\ computedCacheKey.s \in DOMAIN storage'
                 /\ GetField(decode(storage'[computedCacheKey.s]).v, T_state) = state
            /\ state' = setLoadingKey(cfg, state, FALSE)
            /\ last'.error = NoError
       /\ Failed(c) =>
            /\ cfg.storage = "local" => computedCacheKey.s \notin DOMAIN storage'
            /\ state' = setLoadingKey(cfg, state, FALSE)
            /\ last'.error # NoError]_vars

\* On a store with a loading key the first call has missed, refreshed and
\* written its entry, and the second call has hit it: reset, patch, flag
\* false.
C29_Witness ==
  /\ cfg.loadingKey # Undefined /\ cfg.storage = "local"
  /\ calls[1].pc = "done" /\ calls[1].invoked = 1
  /\ last.op = "LoadStart" /\ last.c = 2 /\ last.hit
  /\ calls[2].pc = "done" /\ calls[2].invoked = 0
  /\ Len(last.through) = 3
  /\ last.through[1] = Defaults(cfg)
  /\ state = last.through[3]
  /\ GetField(state, T_value) # Num(0)

----------------------------------------------------------------------------
(* The form of the addresses *)

\* k is '<prefix>-<id>-<suffix>' for a store with options c and refresh
\* options p: the prefix is 'store' unless the store was given one, and the
\* suffix is '0' for a store with a shared key and the representation of p
\* otherwise.
HasForm(c, k, p) ==
  LET prefix == IF c.keyPrefix = Undefined THEN T_store ELSE c.keyPrefix.s
      suffix == IF c.refreshSpecificKey = Bool(FALSE) THEN <<48>>
                ELSE objectRepresentation(p)
      head == prefix \o <<45>> \o c.id \o <<45>>
  IN StartsWith(k, head) /\ SubSeq(k, Len(head) + 1, Len(k)) = suffix

\* The step just taken changed what the storage holds at k.
Changed(k) ==
  IF k \in DOMAIN storage /\ k \in DOMAIN storage'
  THEN storage'[k] # storage[k]
  ELSE k \in DOMAIN storage \cup DOMAIN storage'

\* C30: the address a $load looks up has the form '<prefix>-<id>-<suffix>'
\* for its refresh options; whatever a step of $load or a $flushCache writes
\* or removes is at the address computed last, which has this form for the
\* refresh options of some call; and after a $clearCache() of the store no
\* key of this form is left in its storage, so that every entry the store
\* wrote is gone.
C30_KeysHaveForm ==
  [][/\ \A c \in Calls :
          Began(c) => HasForm(cfg, computedCacheKey'.s, last'.params)
     /\ last'.op \in {"LoadStart", "RefreshWrite", "LoadFinish", "LoadFail",
                       "FlushCache"} =>
          \A k \in DOMAIN storage \cup DOMAIN storage' :
            Changed(k) =>
              /\ k = computedCacheKey'.s
              /\ \E p \in Params : HasForm(cfg, k, p)
     /\ (last'.op = "ClearCache" /\ env' # env /\ cfg.storage = "local") =>
          \A k \in DOMAIN storage' : \A p \in Params : ~HasForm(cfg, k, p)]_vars

\* A store with a shared key has loaded and written its entry at
\* 'store-calc-0', and a $clearCache() has removed it.
C30_Witness ==
  /\ cfg.storage = "local" /\ cfg.refreshSpecificKey = Bool(FALSE)
  /\ calls[1].pc = "done" /\ calls[1].invoked = 1
  /\ computedCacheKey = Str(<<115, 116, 111, 114, 101, 45, 99, 97, 108, 99, 45, 48>>)
  /\ last.op = "ClearCache"
  /\ storage = <<>>

\* The same for two stores with ids and key prefixes of their own: what a
\* $load writes is at an address of this form, and the store's own
\* $clearCache() leaves no key of this form.
StoresKeysHaveForm ==
  [][\A n \in 1..2 :
       /\ (env' # env /\ last'.op = "StoreLoad" /\ last'.c = n) =>
            /\ HasForm(stores[n].cfg, stores'[n].computedCacheKey.s, last'.params)
            /\ \A k \in DOMAIN storage \cup DOMAIN storage' :
                 Changed(k) => k = stores'[n].computedCacheKey.s
       /\ (env' # env /\ last'.op = "StoreClear" /\ last'.c = n) =>
            \A k \in DOMAIN storage' :
              \A p \in StoreParams : ~HasForm(stores[n].cfg, k, p)]_vars

----------------------------------------------------------------------------
(* Overlapping calls and the address *)

\* C31: a $load call whose refresh has returned writes its entry at the
\* address of its own refresh options and changes nothing elsewhere, and a
\* call whose refresh has thrown removes the entry at the address of its
\* own refresh options and nothing else, whatever other calls have begun
\* in the meantime.
C31_AddressScopedToCall ==
  [][\A c \in Calls :
       (cfg.storage = "local" /\ (Finished(c) \/ Failed(c))) =>
         LET own == CacheKey(cfg, calls[c].params)
         IN /\ \A k \in DOMAIN storage \cup DOMAIN storage' :
                 Changed(k) => k = own
            /\ Finished(c) => own \in DOMAIN storage'
            /\ Failed(c) => own \notin DOMAIN storage']_vars

\* $load({ a: 1 }) was suspended in its refresh when $load({ a: 1, b: 2 })
\* began; the first call's refresh has returned and the call has written
\* its entry at the address of { a: 1, b: 2 }, where the value of { a: 1 }
\* now is; nothing is at the address of { a: 1 }.
C31_Witness ==
  /\ cfg.storage = "local" /\ cfg.refreshSpecificKey = Undefined
  /\ env = <<>>
  /\ last.op = "LoadFinish" /\ last.c = 1
  /\ last.params = Obj(<< <<(<<97>>), Num(1)>> >>)
  /\ calls[2].pc = "refreshing"
  /\ calls[2].params = Obj(<< <<(<<97>>), Num(1)>>, <<(<<98>>), Num(2)>> >>)
  /\ DOMAIN storage = {CacheKey(cfg, calls[2].params)}
  /\ CacheKey(cfg, last.params) \notin DOMAIN storage
  /\ GetField(EntryState(storage, calls[2].params), T_value)
       = Num(Calculate(last.params, last.payload))

\* The state in which an uninterrupted $load(p, pl) that misses writes its
\* entry: the defaults, the flag set, and the value refresh assigned.
Produced(p, pl) ==
  SetField(setLoadingKey(cfg, Defaults(cfg), TRUE), T_value,
           Num(Calculate(p, pl)))

\* C32: on a store with a key per refresh options, the entry at the address
\* of refresh options p always holds the state that a refresh for p
\* produces from the defaults, whatever ran on the store while a refresh
\* was suspended.
C32_EntryHoldsOwnRefresh ==
  (cfg.storage = "local" /\ cfg.refreshSpecificKey = Undefined) =>
    \A p \in Params :
      CacheKey(cfg, p) \in DOMAIN storage =>
        \E pl \in Payloads : EntryState(storage, p) = Produced(p, pl)

\* $clearCache() ran after the refresh of the only $load had assigned its
\* value, and the refresh has returned: the entry at the address of the
\* call's refresh options holds the defaults.
C32_Witness ==
  /\ cfg.storage = "local" /\ cfg.refreshSpecificKey = Undefined
  /\ env = <<"ClearCache">>
  /\ last.op = "LoadFinish" /\ last.c = 1
  /\ calls[2].pc = "idle"
  /\ DOMAIN storage = {CacheKey(cfg, last.params)}
  /\ EntryState(storage, last.params) = Defaults(cfg)

----------------------------------------------------------------------------
(* The age of an entry *)

\* C33: a $load that finds a well-formed entry at its address hits exactly
\* when the entry's timestamp is at least the clock less maxAge (and the
\* validity predicate, if any, accepts its state): an entry as old as maxAge
\* is a hit, one a millisecond older a miss.  The timestamp of the entry a
\* $load writes is the clock value at the moment of the write, after
\* refresh has returned.
C33_AgeBoundary ==
  [][\A c \in Calls :
       /\ (Began(c) /\ Stored(cfg, storage, CacheKey(cfg, last'.params))) =>
            LET e == EntryAt(storage, last'.params)
            IN WellFormed(e) =>
                 (last'.hit <=>
                    /\ e.timestamp.n >= now - GivenMaxAge
                    /\ cfg.checkValidity => Accepted(e, last'.payload))
       /\ (Finished(c) /\ cfg.storage = "local") =>
            EntryAt(storage', last'.params).timestamp = Num(now)]_vars

\* The second call finds the entry the first one wrote exactly maxAge
\* before, and hits.
C33_Witness ==
  /\ KeyedPlain /\ cfg.maxAge = Undefined
  /\ env = <<"Tick">> /\ now = Clock0 + 86400000
  /\ calls[1].pc = "done" /\ calls[1].invoked = 1
  /\ last.op = "LoadStart" /\ last.c = 2 /\ last.hit
  /\ EntryAt(storage, last.params).timestamp = Num(Clock0)

\* The clock advanced by more than maxAge while the first call's refresh
\* was suspended; the entry carries the later clock value, and the second
\* call hits it.
C33_WrittenLate ==
  /\ KeyedPlain /\ cfg.maxAge = Undefined
  /\ env = <<"Tick">> /\ now = Clock0 + 86400001
  /\ calls[1].pc = "done" /\ calls[1].invoked = 1
  /\ last.op = "LoadStart" /\ last.c = 2 /\ last.hit
  /\ EntryAt(storage, last.params).timestamp = Num(now)

----------------------------------------------------------------------------
(* The loading flag in the entry *)

\* C34: on a store with a loading key, the state in the entry that a $load
\* writes when its refresh has returned has the loading flag false.
C34_EntryNotLoading ==
  [][\A c \in Calls :
       (Finished(c) /\ cfg.storage = "local" /\ cfg.loadingKey # Undefined) =>
         GetField(GetField(decode(storage'[computedCacheKey.s]).v, T_state),
                  cfg.loadingKey.s) = Bool(FALSE)]_vars

\* The only $load of a store with a loading key has refreshed and written
\* its entry, nothing else having run: the entry's state has loading true,
\* the store's state has loading false.
C34_Witness ==
  /\ cfg.storage = "local" /\ cfg.loadingKey # Undefined
  /\ env = <<>>
  /\ last.op = "LoadFinish" /\ last.c = 1 /\ calls[1].alone
  /\ calls[2].pc = "idle"
  /\ GetField(EntryState(storage, last.params), T_loading) = Bool(TRUE)
  /\ GetField(state, T_loading) = Bool(FALSE)

----------------------------------------------------------------------------
(* The validity predicate *)

\* The lookup gets as far as the validity predicate with entry e: e decodes,
\* its timestamp is a number, its state is an object to typeof, and it is
\* not stale.
Presented(e) ==
  /\ e.ok /\ e.timestamp.t = "num" /\ TypeOf(e.state) = "object"
  /\ ~Stale(e)

\* C35: on a store with a validity predicate, a $load whose predicate
\* throws on the entry it is given does not reject: it leaves the entry
\* where it is and invokes refresh, once; the entry stays as it is while
\* refresh runs.
C35_PredicateThrowIsMiss ==
  [][\A c \in Calls :
       /\ (Began(c) /\ cfg.checkValidity
              /\ Stored(cfg, storage, CacheKey(cfg, last'.params))) =>
            LET e == EntryAt(storage, last'.params)
            IN (Presented(e) /\ ~checkValidity(e.state, last'.payload).ok) =>
                 /\ ~last'.hit /\ last'.error = NoError
                 /\ calls'[c].pc = "refreshing" /\ calls'[c].invoked = 1
                 /\ storage' = storage
       /\ (calls[c].pc = "refreshing" /\ calls'[c].pc = "written") =>
            storage' = storage]_vars

\* Other code has stored a fresh entry whose state is null; the validity
\* predicate has thrown on it, and the $load is waiting for its refresh,
\* the entry still in place.
C35_Witness ==
  /\ cfg.checkValidity
  /\ env = <<"ExternalSetItem">>
  /\ last.op = "LoadStart" /\ ~last.hit /\ last.error = NoError
  /\ calls[last.c].pc = "refreshing" /\ calls[last.c].invoked = 1
  /\ Stored(cfg, storage, CacheKey(cfg, last.params))
  /\ storage[CacheKey(cfg, last.params)] = encode(Entry(Null, Num(Clock0)))
  /\ ~checkValidity(EntryState(storage, last.params), last.payload).ok

\* C36: a $load calls the validity predicate at most once, and only with
\* an entry that is in the storage, decodes, has a number as timestamp and
\* an object as state, and is not stale; a store without a storage never
\* calls it.
C36_PredicateOnlyForSoundEntry ==
  [][\A c \in Calls :
       Began(c) =>
         /\ last'.asked <= 1
         /\ last'.asked = 1 =>
              /\ cfg.checkValidity
              /\ Stored(cfg, storage, CacheKey(cfg, last'.params))
              /\ LET e == EntryAt(storage, last'.params)
                 IN WellFormed(e) /\ ~Stale(e)]_vars

\* A $load has called the validity predicate with the state null of a fresh
\* entry that other code stored.
C36_Witness ==
  /\ cfg.checkValidity
  /\ last.op = "LoadStart" /\ last.asked = 1
  /\ Stored(cfg, storage, CacheKey(cfg, last.params))
  /\ EntryAt(storage, last.params).ok
  /\ EntryState(storage, last.params) = Null

\* The predicate is called exactly when the entry passes the lookup's own
\* checks: it is stored, decodes, its timestamp is a number, its state an
\* object to typeof, and it is not stale.
PredicateCalledWhenPresented ==
  [][\A c \in Calls :
       Began(c) =>
         /\ last'.asked <= 1
         /\ last'.asked = 1 <=>
              /\ cfg.checkValidity
              /\ Stored(cfg, storage, CacheKey(cfg, last'.params))
              /\ Presented(EntryAt(storage, last'.params))]_vars

----------------------------------------------------------------------------
(* Two stores whose prefixes and ids have '-' in them *)

\* The caching options of these stores: key prefix 'a' or 'a-b', id 'b-c'
\* or 'c'.
DashConfigs ==
  [id : {<<98, 45, 99>>, <<99>>},
   keyPrefix : {Str(<<97>>), Str(<<97, 45, 98>>)},
   refreshSpecificKey : {Undefined},
   maxAge : {Undefined},
   checkValidity : {FALSE},
   loadingKey : {Undefined},
   storage : {"local"}]

\* Two stores with different ids on an empty localStorage.
DashInit ==
  /\ stores \in {f \in [1..2 -> {NewStore(c) : c \in DashConfigs}] :
                   f[1].cfg.id # f[2].cfg.id}
  /\ storage = <<>>
  /\ now = Clock0
  /\ env = <<>>
  /\ last = Ran("Init", 0)
  /\ cfg = CHOOSE c \in Configs :
             /\ c.refreshSpecificKey = Undefined /\ c.maxAge = Undefined
             /\ ~c.checkValidity /\ c.loadingKey = Undefined
             /\ c.storage = "local"
  /\ state = Undefined
  /\ computedCacheKey = Undefined
  /\ calls = [c \in Calls |-> NoCall]
  /\ loaded = {}
  /\ defaults = Defaults(cfg)
  /\ made = Defined
  /\ input = NoInput
  /\ output = NoOutput

DashNext ==
  \/ \E n \in 1..2, p \in StoreParams : StoreLoad(n, p, Num(0))
  \/ \E n \in 1..2 : StoreClear(n)

Dashes == DashInit /\ [][DashNext]_vars

\* C37: two stores that differ in key prefix or id have no address in
\* common, and a $load of one of them neither hits an entry that the other
\* wrote nor writes where the other has an entry.
C37_AddressesDisjoint ==
  [][\A n \in 1..2 :
       /\ \A p, q \in StoreParams :
            CacheKey(stores[n].cfg, p) # CacheKey(stores[Peer(n)].cfg, q)
       /\ (env' # env /\ last'.op = "StoreLoad" /\ last'.c = n) =>
            stores'[n].computedCacheKey.s \notin stores[Peer(n)].wrote]_vars

\* The store with prefix 'a-b' and id 'c' has run its first $load and hit
\* the entry that the store with prefix 'a' and id 'b-c' wrote: it shows
\* that store's value and has written nothing itself.
C37_Witness ==
  /\ env = <<"StoreLoad", "StoreLoad">>
  /\ last.op = "StoreLoad" /\ last.c = 2 /\ last.hit
  /\ stores[1].cfg.keyPrefix = Str(<<97>>) /\ stores[1].cfg.id = <<98, 45, 99>>
  /\ stores[2].cfg.keyPrefix = Str(<<97, 45, 98>>) /\ stores[2].cfg.id = <<99>>
  /\ stores[2].wrote = {}
  /\ stores[2].computedCacheKey.s \in stores[1].wrote
  /\ stores[2].state = stores[1].state
  /\ GetField(stores[2].state, T_value) # Num(0)

----------------------------------------------------------------------------
(* $flushCache after $clearCache *)

\* Store n runs $flushCache().
StoreFlush(n) ==
  /\ Len(env) < MaxOps
  /\ env' = Append(env, "StoreFlush")
  /\ storage' = flushCache(stores[n].cfg, storage, stores[n].computedCacheKey,
                           stores[n].state, now)
  /\ last' = Ran("StoreFlush", n)
  /\ UNCHANGED <<cfg, state, computedCacheKey, stores, now, calls, loaded,
                 defaults, made, input, output>>

\* One store on which whole $load calls, $clearCache() and $flushCache()
\* run in any order.
FlushNext ==
  \/ \E p \in StoreParams : StoreLoad(1, p, Num(0))
  \/ StoreClear(1)
  \/ StoreFlush(1)

Flushes == PriorInit /\ [][FlushNext]_vars

\* The keys in the storage that start with the store's '<prefix>-<id>-'.
KeysOf(n) ==
  {k \in DOMAIN storage :
     StartsWith(k, KeyPrefix(stores[n].cfg) \o <<45>> \o stores[n].cfg.id \o <<45>>)}

\* The store has run $clearCache() and, since then, none of the operations
\* in ops.
ClearedAndNo(ops) ==
  \E i \in DOMAIN env :
    /\ env[i] = "StoreClear"
    /\ \A j \in (i + 1)..Len(env) : env[j] \notin ops

\* C38 as stated: from the return of a $clearCache() to the start of the
\* next $load the storage holds no key of the store, a $flushCache() in
\* between writing nothing.
C38_NothingUntilNextLoad ==
  ClearedAndNo({"StoreLoad"}) => KeysOf(1) = {}

\* C38: from the return of a $clearCache() to the start of the next $load
\* or $flushCache the storage holds no key of the store; $clearCache keeps
\* the address computed last, and a $flushCache() on a store that has
\* computed an address leaves at that address an entry with the store's
\* current state, also directly after a $clearCache().
C38_FlushAfterClearWrites ==
  /\ ClearedAndNo({"StoreLoad", "StoreFlush"}) => KeysOf(1) = {}
  /\ (last.op = "StoreFlush" /\ stores[1].computedCacheKey # Undefined) =>
       /\ stores[1].computedCacheKey.s \in KeysOf(1)
       /\ LET d == decode(storage[stores[1].computedCacheKey.s])
          IN d.ok /\ GetField(d.v, T_state) = stores[1].state

\* $load, $clearCache(), $flushCache(): the storage holds one entry, at the
\* address of the $load, with the state defaults in it.
C38_Witness ==
  /\ env = <<"StoreLoad", "StoreClear", "StoreFlush">>
  /\ stores[1].state = Defaults(stores[1].cfg)
  /\ KeysOf(1) = {stores[1].computedCacheKey.s}
  /\ GetField(decode(storage[stores[1].computedCacheKey.s]).v, T_state)
       = Defaults(stores[1].cfg)

----------------------------------------------------------------------------
(* Every call settles *)

\* Overlapping calls whose refresh settles: a call that is suspended in its
\* refresh goes on, the refresh returning or throwing in the end.
Settling ==
  Race /\ \A c \in Calls :
            WF_vars((\E e \in Thrown : LoadFail(c, e))
                      \/ RefreshWrite(c) \/ LoadFinish(c))

\* C39: a $load call that is suspended in its refresh settles in the end,
\* resolving or rejecting; and on a store with a loading key, whenever a
\* refresh is in progress there comes a moment when none is and the flag is
\* false.
C39_EveryLoadSettles ==
  /\ \A c \in Calls : Active(c) ~> calls[c].pc \in {"done", "failed"}
  /\ (cfg.loadingKey # Undefined /\ \E c \in Calls : Active(c))
       ~> (/\ \A c \in Calls : ~Active(c)
           /\ GetField(state, T_loading) = Bool(FALSE))

\* On a store with a loading key two calls overlapped, the second has
\* resolved and the first has rejected after it: the flag is false.
C39_Witness ==
  /\ cfg.loadingKey # Undefined /\ env = <<>>
  /\ ~calls[1].alone /\ ~calls[2].alone
  /\ calls[2].pc = "done" /\ calls[2].invoked = 1
  /\ calls[1].pc = "failed" /\ calls[1].invoked = 1
  /\ last.op = "LoadFail" /\ last.c = 1
  /\ GetField(state, T_loading) = Bool(FALSE)

-----------------------------------------------------------------------------
(* One sorted list of keys for the whole value, or one per object *)

RECURSIVE StringifyByLevel(_), ByLevelItems(_, _), ByLevelMembers(_, _, _, _)
\* The JSON text of v in which every object's own properties are written in
\* sorted order, each object's names sorted for itself.
StringifyByLevel(v) ==
  CASE v.t = "arr" -> <<91>> \o ByLevelItems(v.a, 1) \o <<93>>
    [] v.t = "obj" ->
         <<123>>
           \o ByLevelMembers(v, SortKeys({v.o[i][1] : i \in 1..Len(v.o)}), 1, TRUE)
           \o <<125>>
    [] OTHER -> Stringify(v)

ByLevelItems(a, i) ==
  IF i > Len(a) THEN <<>>
  ELSE (IF i > 1 THEN <<44>> ELSE <<>>)
         \o (IF a[i].t = "undef" THEN T_null ELSE StringifyByLevel(a[i]))
         \o ByLevelItems(a, i + 1)

ByLevelMembers(v, keys, i, first) ==
  IF i > Len(keys) THEN <<>>
  ELSE IF GetField(v, keys[i]).t = "undef" THEN ByLevelMembers(v, keys, i + 1, first)
  ELSE (IF first THEN <<>> ELSE <<44>>)
         \o Quoted(keys[i]) \o <<58>> \o StringifyByLevel(GetField(v, keys[i]))
         \o ByLevelMembers(v, keys, i + 1, FALSE)

\* Refresh options in which an object has a property named __proto__ of its
\* own, as JSON.parse or a computed property name makes it:
\*   { a: {}, ['__proto__']: 1 }
\*   { a: { ['__proto__']: { ['__proto__']: null } }, ['__proto__']: 1 }
\*   { ['__proto__']: 1 }
\*   { b: { ['__proto__']: 1, a: 2 }, a: 3 }
\*   [{ ['__proto__']: 1 }, { b: 2 }]
ProtoValues ==
  {Obj(<< <<<<97>>, Obj(<<>>)>>, <<T_proto, Num(1)>> >>),
   Obj(<< <<<<97>>, Obj(<< <<T_proto, Obj(<< <<T_proto, Null>> >>)>> >>)>>,
          <<T_proto, Num(1)>> >>),
   Obj(<< <<T_proto, Num(1)>> >>),
   Obj(<< <<<<98>>, Obj(<< <<T_proto, Num(1)>>, <<<<97>>, Num(2)>> >>)>>,
          <<<<97>>, Num(3)>> >>),
   Arr(<<Obj(<< <<T_proto, Num(1)>> >>), Obj(<< <<<<98>>, Num(2)>> >>)>>)}

\* Whether an object at or below v has an own property named __proto__.
RECURSIVE OwnsProto(_)
OwnsProto(v) ==
  CASE v.t = "arr" -> \E i \in 1..Len(v.a) : OwnsProto(v.a[i])
    [] v.t = "obj" -> \E i \in 1..Len(v.o) : v.o[i][1] = T_proto \/ OwnsProto(v.o[i][2])
    [] OTHER -> FALSE

\* Two values out of the lists, the objects and the nested values of Utils
\* and the ones above, and no store.
CanonInit ==
  /\ input \in (Lists \cup Mappings \cup Nested \cup ProtoValues)
                 \X (Lists \cup Mappings \cup Nested \cup ProtoValues)
  /\ output = NoOutput
  /\ cfg = CHOOSE c \in Configs :
             /\ c.refreshSpecificKey = Undefined /\ c.maxAge = Undefined
             /\ ~c.checkValidity /\ c.loadingKey = Undefined
             /\ c.storage = "local"
  /\ state = Undefined
  /\ computedCacheKey = Undefined
  /\ storage = <<>>
  /\ now = Clock0
  /\ calls = [c \in Calls |-> NoCall]
  /\ loaded = {}
  /\ env = <<>>
  /\ last = Ran("Init", 0)
  /\ defaults = Defaults(cfg)
  /\ made = Pending
  /\ stores = <<>>

Canon == CanonInit /\ [][UtilsNext]_vars

\* C40: for each of the two values, objectRepresentation returns what encode
\* returns for the JSON text in which every object's properties are sorted
\* for that object alone.
C40_OneOrderIsEveryLevelsOrder ==
  output.op = "objectRepresentation" =>
    /\ output.a = encode(Str(StringifyByLevel(input[1])))
    /\ output.b = encode(Str(StringifyByLevel(input[2])))

\* objectRepresentation has run for { a: {}, ['__proto__']: 1 } and for
\* { a: { ['__proto__']: { ['__proto__']: null } }, ['__proto__']: 1 }: it
\* returned one text for both, which is not the first one's text with each
\* object's names sorted for itself.
C40_Witness ==
  /\ output.op = "objectRepresentation"
  /\ input[1] = Obj(<< <<<<97>>, Obj(<<>>)>>, <<T_proto, Num(1)>> >>)
  /\ input[2] = Obj(<< <<<<97>>, Obj(<< <<T_proto, Obj(<< <<T_proto, Null>> >>)>> >>)>>,
                       <<T_proto, Num(1)>> >>)
  /\ output.a = output.b
  /\ output.a # encode(Str(StringifyByLevel(input[1])))
  /\ output.b = encode(Str(StringifyByLevel(input[2])))

\* Where no object has a property named __proto__ of its own, the two texts
\* are the same.
SameWithoutOwnProto ==
  (output.op = "objectRepresentation" /\ ~OwnsProto(input[1])) =>
    output.a = encode(Str(StringifyByLevel(input[1])))

====
